---- MODULE Spec2Model ----
(***************************************************************************)
(* Timeline fusion of voiceiq-AI: app/services/alignment_service.py.       *)
(*                                                                         *)
(* Representation.                                                         *)
(*  - A time is an integer number of microseconds (1e-6 s), so the code's  *)
(*    epsilon 1e-6 is 1, max_gap 0.75 is 750000 and round(x, 3) rounds to  *)
(*    a multiple of 1000.  Arithmetic is exact (binary floating-point      *)
(*    rounding error is not modelled).                                     *)
(*  - A word interval's start and end are kept in units of 1/WScale        *)
(*    microsecond, WScale a common multiple of every word count, so that   *)
(*    duration / len(words) is exact.                                      *)
(*  - A text is a sequence of one-character strings; SP is the blank.      *)
(*  - A confidence, and no_speech_prob, are in thousandths (ConfScale);    *)
(*    avg_logprob is an integer.                                           *)
(***************************************************************************)
EXTENDS Integers, Sequences, FiniteSets, TLC

VARIABLES pc, asr_result, diarization, asr, words, raw, merged, remerged,
          speaker_segments, conversation,
          outcome, speaker_stats, conversation_stats, enriched,
          heap, proc,
          _model, whisper_loads, asr_calls, segments_in, raw_segments, smoothed

vars == <<pc, asr_result, diarization, asr, words, raw, merged, remerged,
          speaker_segments, conversation,
          outcome, speaker_stats, conversation_stats, enriched,
          heap, proc,
          _model, whisper_loads, asr_calls, segments_in, raw_segments,
          smoothed>>

\* what the route's calls gave: whether each has returned or raised, the
\* two statistics (<<>> for the empty dict {}), and the speaker segments as
\* the enrichment stages run so far returned them
resultVars == <<outcome, speaker_stats, conversation_stats, enriched>>

\* the dicts of concurrent calls of align, by identity, and each call's
\* position and locals (SpecCalls)
callVars == <<heap, proc>>

\* the state of the services that run before the alignment: the model cache
\* of asr_service with the invocations of whisper.load_model and the calls
\* made so far (SpecAsr); the list diarize_audio passes to _smooth_segments,
\* whose dicts the call changes in place, the values it held when it was
\* passed, and the list returned (SpecSmooth)
serviceVars ==
    <<_model, whisper_loads, asr_calls, segments_in, raw_segments, smoothed>>

\* None
None == "None"

\* _model = None: no model is cached; a model is the object returned by
\* one invocation of whisper.load_model, known by the name it was loaded
\* under and by the number of that invocation
NoModel == [name |-> None, load |-> 0]

NotCalled ==
    [align |-> "pending", build_conversation |-> "pending",
     compute_speaker_stats |-> "pending",
     compute_conversation_stats |-> "pending"]

InitResults ==
    /\ outcome = NotCalled
    /\ speaker_stats = <<>>
    /\ conversation_stats = <<>>
    /\ enriched = <<>>
    /\ heap = <<>>
    /\ proc = <<>>
    /\ _model = NoModel
    /\ whisper_loads = <<>>
    /\ asr_calls = <<>>
    /\ segments_in = <<>>
    /\ raw_segments = <<>>
    /\ smoothed = <<>>

(***************************************************************************)
(* Bounds of the model.                                                    *)
(***************************************************************************)
\* largest number of words in one ASR text
MaxWords == 3
\* times of the word-slicing inputs are 0..MaxT grid steps
MaxT == 3
\* ASR segments per list given to _to_word_segments
MaxAsr == 2
\* raw speaker segments per list given to _merge_blocks
MaxRaw == 3
\* times of the raw speaker segments are 0..MaxTM grid steps
MaxTM == 3
\* times of the alignment inputs are 0..MaxTA grid steps
MaxTA == 2
\* diarization intervals per alignment input
MaxDiar == 2
\* times of the conversation inputs are 0..MaxTV grid steps
MaxTV == 2
\* diarization intervals per conversation input
MaxDiarV == 3

(***************************************************************************)
(* Program constants.                                                      *)
(***************************************************************************)
\* duration = max(end - start, 1e-6)
EPS == 1
\* _merge_blocks(segments, max_gap=0.75)
max_gap == 750000
\* build_conversation: MAX_GAP = 0.75
MAX_GAP == 750000
\* seg["confidence"] = 0.5
DEFAULT_CONFIDENCE == 500
\* seg.get("avg_logprob", -1.0), s.get("avg_logprob", -1.0)
DEFAULT_AVG_LOGPROB == -1
\* seg.get("no_speech_prob", 0.0)
DEFAULT_NO_SPEECH_PROB == 0

\* one grid step of the input times: 0.375 s, so that max_gap is two steps
Step == 375 * 1000
\* thousandths
ConfScale == 10 * 100

SP == " "
Letters == <<"a", "b", "c", "d", "e", "f">>

Min(a, b) == IF a <= b THEN a ELSE b
Max(a, b) == IF a >= b THEN a ELSE b

RECURSIVE Factorial(_)
Factorial(n) == IF n <= 1 THEN 1 ELSE n * Factorial(n - 1)

\* common multiple of all word counts 1..MaxWords
WScale == Factorial(MaxWords)

SeqUpTo(S, n) == UNION {[1..k -> S] : k \in 0..n}

(***************************************************************************)
(* str.strip(), str.split(), " ".join(...)                                 *)
(***************************************************************************)
RECURSIVE LStrip(_)
LStrip(t) == IF t /= <<>> /\ Head(t) = SP THEN LStrip(Tail(t)) ELSE t

RECURSIVE RStrip(_)
RStrip(t) ==
    IF t /= <<>> /\ t[Len(t)] = SP THEN RStrip(SubSeq(t, 1, Len(t) - 1)) ELSE t

Strip(t) == RStrip(LStrip(t))

\* the longest prefix of t without a blank
RECURSIVE TakeWord(_)
TakeWord(t) ==
    IF t = <<>> \/ Head(t) = SP THEN <<>> ELSE <<Head(t)>> \o TakeWord(Tail(t))

\* text.split(): the maximal blank-free runs, in order
RECURSIVE Split(_)
Split(t) ==
    LET u == LStrip(t)
        w == TakeWord(u)
    IN  IF u = <<>> THEN <<>>
        ELSE <<w>> \o Split(SubSeq(u, Len(w) + 1, Len(u)))

\* " ".join(ws)
RECURSIVE Join(_)
Join(ws) ==
    IF ws = <<>> THEN <<>>
    ELSE IF Len(ws) = 1 THEN ws[1]
    ELSE ws[1] \o <<SP>> \o Join(Tail(ws))

(***************************************************************************)
(* sorted(xs, key=lambda x: x["start"]): stable, ascending                 *)
(***************************************************************************)
RECURSIVE InsertByStart(_, _)
InsertByStart(x, s) ==
    IF s = <<>> THEN <<x>>
    ELSE IF s[Len(s)].start <= x.start THEN Append(s, x)
    ELSE Append(InsertByStart(x, SubSeq(s, 1, Len(s) - 1)), s[Len(s)])

\* mutant: the list is used in the order given
SortedByStart_Unsorted(s) == s

RECURSIVE SortedByStart(_)
SortedByStart(s) ==
    IF s = <<>> THEN <<>>
    ELSE InsertByStart(s[Len(s)], SortedByStart(SubSeq(s, 1, Len(s) - 1)))

(***************************************************************************)
(* EnhancedAligner._to_word_segments                                       *)
(***************************************************************************)
\* the word intervals of one segment (the body of the outer loop)
WordsOfSegment(seg) ==
    LET text == seg.text
        start == seg.start
        end == seg.end
        duration == Max(end - start, EPS)
        ws == Split(text)
        n == Len(ws)
        \* w_dur = duration / len(words), in 1/WScale microseconds
        w_dur == (duration * WScale) \div n
    IN  IF text = <<>> \/ n = 0 THEN <<>>
        ELSE [i \in 1..n |->
                [start |-> start * WScale + (i - 1) * w_dur,
                 end   |-> IF i = n THEN end * WScale
                           ELSE start * WScale + i * w_dur,
                 word  |-> ws[i]]]

RECURSIVE ToWordSegments(_)
ToWordSegments(asr_segments) ==
    IF asr_segments = <<>> THEN <<>>
    ELSE ToWordSegments(SubSeq(asr_segments, 1, Len(asr_segments) - 1))
            \o WordsOfSegment(asr_segments[Len(asr_segments)])

(***************************************************************************)
(* Inputs of the word-slicing specification                                *)
(***************************************************************************)
\* a text of n one-letter words joined by single blanks
TextOfWords(n) == Join([i \in 1..n |-> <<Letters[i]>>])

\* normalised texts (stripped by _extract_asr_segments): 0..MaxWords words,
\* and one with a doubled inner blank
AsrTexts ==
    {TextOfWords(n) : n \in 0..MaxWords} \cup {<<"a", SP, SP, "b">>}

Grid == {k * Step : k \in 0..MaxT}
MergeGrid == {k * Step : k \in 0..MaxTM}

\* normalised ASR segments, every start/end pair (zero-duration and inverted
\* included), default acoustic metadata
WordSliceSegments ==
    [start : Grid, end : Grid, text : AsrTexts,
     avg_logprob : {DEFAULT_AVG_LOGPROB},
     no_speech_prob : {DEFAULT_NO_SPEECH_PROB}]

NoInput == [kind |-> "none"]

InitWords ==
    /\ pc = "normalized"
    /\ asr \in SeqUpTo(WordSliceSegments, MaxAsr)
    /\ asr_result = NoInput
    /\ diarization = <<>>
    /\ words = <<>>
    /\ raw = <<>>
    /\ merged = <<>>
    /\ remerged = <<>>
    /\ speaker_segments = <<>>
    /\ conversation = <<>>
    /\ InitResults

\* words = cls._to_word_segments(asr)
SliceWords ==
    /\ pc = "normalized"
    /\ words' = ToWordSegments(asr)
    /\ pc' = "sliced"
    /\ UNCHANGED <<asr_result, diarization, asr, raw, merged, remerged,
                   speaker_segments, conversation>>
    /\ UNCHANGED <<resultVars, callVars, serviceVars>>

NextWords == SliceWords

SpecWords == InitWords /\ [][NextWords]_vars

(***************************************************************************)
(* EnhancedAligner._merge_blocks                                           *)
(***************************************************************************)
\* mutant: a zero gap does not merge (0 < gap)
Mergeable_StrictGap(last, seg) ==
    LET gap == seg.start - last.end
    IN  seg.speaker = last.speaker /\ 0 < gap /\ gap <= max_gap

\* mutant: the speaker comparison is dropped
Mergeable_AnySpeaker(last, seg) ==
    LET gap == seg.start - last.end
    IN  0 <= gap /\ gap <= max_gap

\* mutant: the gap is measured to the candidate's end
Mergeable_EndGap(last, seg) ==
    LET gap == seg.end - last.end
    IN  seg.speaker = last.speaker /\ 0 <= gap /\ gap <= max_gap

\* gap = seg["start"] - last["end"];
\* seg["speaker"] == last["speaker"] and 0 <= gap <= max_gap
Mergeable(last, seg) ==
    LET gap == seg.start - last.end
    IN  seg.speaker = last.speaker /\ 0 <= gap /\ gap <= max_gap

\* mutant: the end is extended but the text of seg is not appended
Absorb_DropText(last, seg) == [last EXCEPT !.end = seg.end]

\* last["end"] = seg["end"]; last["text"] = (last["text"] + " " + seg["text"]).strip()
Absorb(last, seg) ==
    [last EXCEPT !.end = seg.end,
                 !.text = Strip(last.text \o <<SP>> \o seg.text)]

\* the loop over segs[1:], kept being the list `merged` built so far
RECURSIVE MergeLoop(_, _)
MergeLoop(kept, rest) ==
    IF rest = <<>> THEN kept
    ELSE LET seg == Head(rest)
             last == kept[Len(kept)]
         IN  IF Mergeable(last, seg)
             THEN MergeLoop([kept EXCEPT ![Len(kept)] = Absorb(last, seg)],
                            Tail(rest))
             ELSE MergeLoop(Append(kept, seg), Tail(rest))

MergeBlocks(segments) ==
    IF segments = <<>> THEN <<>>
    ELSE LET segs == SortedByStart(segments)
         IN  MergeLoop(<<segs[1]>>, Tail(segs))

(***************************************************************************)
(* Inputs of the block-merging specification: raw speaker segments as      *)
(* _align_words_to_diarization builds them (start <= end on the            *)
(* millisecond grid, non-empty stripped text), in any list order.          *)
(***************************************************************************)
Speakers == <<"SPEAKER_00", "SPEAKER_01", "SPEAKER_02">>

SpeakersUpTo(n) == {Speakers[i] : i \in 1..n}

SpeakerIndex(spk) == CHOOSE i \in 1..Len(Speakers) : Speakers[i] = spk

\* speaker labels are opaque (only compared for equality): an input list
\* uses them in order of first appearance
CanonicalLabels(xs) ==
    \A i \in 1..Len(xs) : \A k \in 1..(SpeakerIndex(xs[i].speaker) - 1) :
        \E j \in 1..(i - 1) : xs[j].speaker = Speakers[k]

\* the text of the i-th raw segment of the input list: its own letters, one
\* word at odd and two words at even positions
RawText(i) ==
    IF i % 2 = 1 THEN <<Letters[i]>> ELSE <<Letters[i], SP, Letters[i]>>

\* span and speaker of one raw segment
RawShapes ==
    {r \in [start : MergeGrid, end : MergeGrid, speaker : SpeakersUpTo(2)] :
        r.start <= r.end}

RawListOf(f) ==
    [i \in DOMAIN f |->
        [start |-> f[i].start, end |-> f[i].end, speaker |-> f[i].speaker,
         text |-> RawText(i)]]

InitMerge ==
    /\ pc = "raw"
    /\ \E n \in 0..MaxRaw :
        \E f \in {g \in [1..n -> RawShapes] : CanonicalLabels(g)} : raw = RawListOf(f)
    /\ asr_result = NoInput
    /\ diarization = <<>>
    /\ asr = <<>>
    /\ words = <<>>
    /\ merged = <<>>
    /\ remerged = <<>>
    /\ speaker_segments = <<>>
    /\ conversation = <<>>
    /\ InitResults

\* merged = cls._merge_blocks(raw)
MergeRaw ==
    /\ pc = "raw"
    /\ merged' = MergeBlocks(raw)
    /\ pc' = "merged"
    /\ UNCHANGED <<asr_result, diarization, asr, words, raw, remerged,
                   speaker_segments, conversation>>
    /\ UNCHANGED <<resultVars, callVars, serviceVars>>

\* _merge_blocks applied to its own result
MergeAgain ==
    /\ pc = "merged"
    /\ remerged' = MergeBlocks(merged)
    /\ pc' = "remerged"
    /\ UNCHANGED <<asr_result, diarization, asr, words, raw, merged,
                   speaker_segments, conversation>>
    /\ UNCHANGED <<resultVars, callVars, serviceVars>>

NextMerge == MergeRaw \/ MergeAgain

SpecMerge == InitMerge /\ [][NextMerge]_vars

(***************************************************************************)
(* EnhancedAligner._extract_asr_segments                                   *)
(*                                                                         *)
(* An ASR result is [kind |-> "dict", segments |-> V, meta |-> M],         *)
(* [kind |-> "list", items |-> <<...>>] or [kind |-> "other"]; a value V   *)
(* is ListVal(<<...>>) or NoneVal, M is DictVal(V) or NoneVal.  A segment  *)
(* record is a function from its keys; a key it lacks is outside DOMAIN.   *)
(***************************************************************************)
NoneVal == [tag |-> "none"]
ListVal(s) == [tag |-> "list", v |-> s]
DictVal(segs) == [tag |-> "dict", segments |-> segs]

\* dict.get(key, default)
Get(d, key, default) == IF key \in DOMAIN d THEN d[key] ELSE default

\* mutant: meta.segments is preferred to the top-level segments
SelectSegments_MetaFirst(asr_res) ==
    IF asr_res.kind = "dict"
    THEN IF asr_res.meta.tag = "dict" /\ asr_res.meta.segments.tag = "list"
         THEN asr_res.meta.segments
         ELSE IF asr_res.segments.tag = "list" THEN asr_res.segments
              ELSE NoneVal
    ELSE IF asr_res.kind = "list" THEN ListVal(asr_res.items)
    ELSE NoneVal

\* the list the segments are taken from (segs), NoneVal when there is none
SelectSegments(asr_res) ==
    IF asr_res.kind = "dict"
    THEN IF asr_res.segments.tag = "list" THEN asr_res.segments
         ELSE IF asr_res.meta.tag = "dict" /\ asr_res.meta.segments.tag = "list"
              THEN asr_res.meta.segments
              ELSE NoneVal
    ELSE IF asr_res.kind = "list" THEN ListVal(asr_res.items)
    ELSE NoneVal

RECURSIVE Normalise(_)
Normalise(segs) ==
    IF segs = <<>> THEN <<>>
    ELSE LET s == segs[Len(segs)]
             before == Normalise(SubSeq(segs, 1, Len(segs) - 1))
         IN  IF "start" \notin DOMAIN s \/ "end" \notin DOMAIN s THEN before
             ELSE Append(before,
                    [start |-> s["start"],
                     end |-> s["end"],
                     text |-> Strip(Get(s, "text", <<>>)),
                     avg_logprob |-> Get(s, "avg_logprob", DEFAULT_AVG_LOGPROB),
                     no_speech_prob |->
                        Get(s, "no_speech_prob", DEFAULT_NO_SPEECH_PROB)])

ExtractAsrSegments(asr_res) ==
    LET segs == SelectSegments(asr_res)
    IN  IF segs.tag /= "list" \/ segs.v = <<>> THEN <<>> ELSE Normalise(segs.v)

(***************************************************************************)
(* EnhancedAligner._align_words_to_diarization                             *)
(***************************************************************************)
\* round(x, 3) of a time in microseconds: to the nearest millisecond, a tie
\* to the even one
Round3(t) ==
    LET q == t \div 1000
        r == t % 1000
    IN  IF r < 500 THEN q * 1000
        ELSE IF r > 500 THEN (q + 1) * 1000
        ELSE IF q % 2 = 0 THEN q * 1000 ELSE (q + 1) * 1000

\* mutant: a word that only touches the interval counts as inside it
WordInWindow_Closed(w, d_start, d_end) ==
    ~(w.end < d_start * WScale \/ w.start > d_end * WScale)

\* not (w["end"] <= d_start or w["start"] >= d_end); word times are in
\* 1/WScale microseconds
WordInWindow(w, d_start, d_end) ==
    ~(w.end <= d_start * WScale \/ w.start >= d_end * WScale)

\* mutant: start and end taken from the wrong ends of the interval
RawSegment_Swapped(d, ws) ==
    [start |-> Round3(d.end),
     end |-> Round3(d.start),
     speaker |-> d.speaker,
     text |-> Strip(Join([i \in 1..Len(ws) |-> ws[i].word]))]

\* the segment appended for one diarization interval
RawSegment(d, ws) ==
    [start |-> Round3(d.start),
     end |-> Round3(d.end),
     speaker |-> d.speaker,
     text |-> Strip(Join([i \in 1..Len(ws) |-> ws[i].word]))]

\* mutant: a word already given to an earlier interval is not given to a
\* later one
RECURSIVE AlignLoop_Dedup(_, _)
AlignLoop_Dedup(word_segments, diar) ==
    IF diar = <<>> THEN <<>>
    ELSE LET d == diar[Len(diar)]
             earlier == SubSeq(diar, 1, Len(diar) - 1)
             before == AlignLoop_Dedup(word_segments, earlier)
             ws == SelectSeq(word_segments,
                    LAMBDA w :
                        /\ WordInWindow(w, d.start, d.end)
                        /\ \A k \in 1..Len(earlier) :
                            ~WordInWindow(w, earlier[k].start, earlier[k].end))
         IN  IF ws = <<>> THEN before ELSE Append(before, RawSegment(d, ws))

\* the loop over the sorted diarization list
RECURSIVE AlignLoop(_, _)
AlignLoop(word_segments, diar) ==
    IF diar = <<>> THEN <<>>
    ELSE LET d == diar[Len(diar)]
             before == AlignLoop(word_segments, SubSeq(diar, 1, Len(diar) - 1))
             ws == SelectSeq(word_segments,
                             LAMBDA w : WordInWindow(w, d.start, d.end))
         IN  IF ws = <<>> THEN before ELSE Append(before, RawSegment(d, ws))

AlignWordsToDiarization(word_segments, diar) ==
    IF word_segments = <<>> \/ diar = <<>> THEN <<>>
    ELSE AlignLoop(SortedByStart(word_segments), SortedByStart(diar))

(***************************************************************************)
(* _confidence_from_whisper, _overlap, _best_diar_for_asr                  *)
(***************************************************************************)
RECURSIVE Pow(_, _)
Pow(b, k) == IF k = 0 THEN 1 ELSE b * Pow(b, k - 1)

\* 1.0 / (1.0 + math.exp(-x)) in thousandths, for an integer x, with e taken
\* as 19/7
Sigmoid(x) ==
    IF x >= 0 THEN (ConfScale * Pow(19, x)) \div (Pow(19, x) + Pow(7, x))
    ELSE (ConfScale * Pow(7, -x)) \div (Pow(7, -x) + Pow(19, -x))

\* mutant: the product is returned unclamped
Clamp01_Unclamped(conf) == conf

\* max(0.0, min(1.0, conf))
Clamp01(conf) == Max(0, Min(ConfScale, conf))

ConfidenceFromWhisper(seg) ==
    LET avg_logprob == Get(seg, "avg_logprob", DEFAULT_AVG_LOGPROB)
        no_speech_prob == Get(seg, "no_speech_prob", DEFAULT_NO_SPEECH_PROB)
        conf == (Sigmoid(avg_logprob) * (ConfScale - no_speech_prob)) \div ConfScale
    IN  Clamp01(conf)

Overlap(a_start, a_end, b_start, b_end) ==
    Max(0, Min(a_end, b_end) - Max(a_start, b_start))

\* mutant: a later segment with an equal overlap replaces the best one
RECURSIVE BestScan_LastTie(_, _, _, _, _)
BestScan_LastTie(seg, diar, i, best, best_overlap) ==
    IF i > Len(diar) THEN best
    ELSE LET ov == Overlap(seg.start, seg.end, diar[i].start, diar[i].end)
         IN  IF ov >= best_overlap THEN BestScan_LastTie(seg, diar, i + 1, i, ov)
             ELSE BestScan_LastTie(seg, diar, i + 1, best, best_overlap)

\* the scan of _best_diar_for_asr over diar[i..]: the index of `best`, 0 for
\* None
RECURSIVE BestScan(_, _, _, _, _)
BestScan(seg, diar, i, best, best_overlap) ==
    IF i > Len(diar) THEN best
    ELSE LET ov == Overlap(seg.start, seg.end, diar[i].start, diar[i].end)
         IN  IF ov > best_overlap THEN BestScan(seg, diar, i + 1, i, ov)
             ELSE BestScan(seg, diar, i + 1, best, best_overlap)

BestDiarForAsr(asr_seg, diar) == BestScan(asr_seg, diar, 1, 0, 0)

(***************************************************************************)
(* EnhancedAligner.align                                                   *)
(***************************************************************************)
\* the body of `for seg in merged`
WithConfidence(seg, asr_segs) ==
    LET best == BestDiarForAsr([start |-> seg.start, end |-> seg.end], asr_segs)
    IN  [start |-> seg.start, end |-> seg.end, speaker |-> seg.speaker,
         text |-> seg.text,
         confidence |-> IF best /= 0 THEN ConfidenceFromWhisper(asr_segs[best])
                        ELSE DEFAULT_CONFIDENCE,
         gender |-> None, gender_confidence |-> None]

\* align with the values of its locals asr, words, raw, merged (merged as
\* _merge_blocks returned it, before the confidence is attached)
AlignRun(asr_res, diarization_result) ==
    LET diar == diarization_result
        asr_segs == ExtractAsrSegments(asr_res)
        ws == ToWordSegments(asr_segs)
        raw_segs == AlignWordsToDiarization(ws, diar)
        blocks == MergeBlocks(raw_segs)
    IN  IF asr_segs = <<>> \/ diar = <<>>
        THEN [asr |-> asr_segs, words |-> <<>>, raw |-> <<>>, merged |-> <<>>,
              speaker_segments |-> <<>>]
        ELSE [asr |-> asr_segs, words |-> ws, raw |-> raw_segs, merged |-> blocks,
              speaker_segments |->
                [i \in 1..Len(blocks) |-> WithConfidence(blocks[i], asr_segs)]]

Align(asr_res, diarization_result) ==
    AlignRun(asr_res, diarization_result).speaker_segments

(***************************************************************************)
(* MetadataExtractor (app/services/metadata_service.py)                    *)
(*                                                                         *)
(* A dict keyed by speaker is the sequence of its values in insertion      *)
(* order, each with its key as field speaker; the empty dict {} is <<>>    *)
(* and the dict compute_conversation_stats returns is <<d>>.  A quotient   *)
(* a / b is kept as [num |-> a, den |-> b], times in microseconds.         *)
(***************************************************************************)
Quotient(a, b) == [num |-> a, den |-> b]

\* 1.0 (second), in microseconds
ONE_SECOND == 1000 * 1000

\* mutant: the characters of the text are counted
SegWordCount_Chars(seg) == Len(seg.text)

\* len((seg.get("text") or "").split())
SegWordCount(seg) == Len(Split(seg.text))

\* the position of spk's entry in stats, 0 when it has none
StatsIndex(stats, spk) ==
    IF \E i \in 1..Len(stats) : stats[i].speaker = spk
    THEN CHOOSE i \in 1..Len(stats) : stats[i].speaker = spk
    ELSE 0

\* stats after `for seg in speaker_segments`
RECURSIVE SpeakerStatsLoop(_)
SpeakerStatsLoop(segs) ==
    IF segs = <<>> THEN <<>>
    ELSE LET stats == SpeakerStatsLoop(SubSeq(segs, 1, Len(segs) - 1))
             seg == segs[Len(segs)]
             duration == seg.end - seg.start
             k == StatsIndex(stats, seg.speaker)
         IN  IF k = 0
             THEN Append(stats,
                    [speaker |-> seg.speaker,
                     total_speaking_time |-> duration,
                     segment_count |-> 1,
                     total_words |-> SegWordCount(seg),
                     longest_monologue |-> Max(0, duration),
                     first_spoke_at |-> seg.start,
                     last_spoke_at |-> seg.end])
             ELSE [stats EXCEPT ![k] =
                    [speaker |-> seg.speaker,
                     total_speaking_time |-> stats[k].total_speaking_time + duration,
                     segment_count |-> stats[k].segment_count + 1,
                     total_words |-> stats[k].total_words + SegWordCount(seg),
                     longest_monologue |-> Max(stats[k].longest_monologue, duration),
                     first_spoke_at |-> Min(stats[k].first_spoke_at, seg.start),
                     last_spoke_at |-> Max(stats[k].last_spoke_at, seg.end)]]

\* mutant: the first speaker's value is taken for the total
SumField_First(stats, field) == stats[1][field]

RECURSIVE SumField(_, _)
\* sum(s[field] for s in stats.values())
SumField(stats, field) ==
    IF stats = <<>> THEN 0 ELSE stats[1][field] + SumField(Tail(stats), field)

ComputeSpeakerStats(segs) ==
    IF segs = <<>> THEN <<>>
    ELSE LET stats == SpeakerStatsLoop(segs)
             total_audio_talk_time == SumField(stats, "total_speaking_time")
             total_audio_words == SumField(stats, "total_words")
         IN  [i \in 1..Len(stats) |->
                LET st == stats[i]
                IN  [speaker |-> st.speaker,
                     total_speaking_time |-> st.total_speaking_time,
                     segment_count |-> st.segment_count,
                     total_words |-> st.total_words,
                     longest_monologue |-> st.longest_monologue,
                     first_spoke_at |-> st.first_spoke_at,
                     last_spoke_at |-> st.last_spoke_at,
                     avg_segment_length |->
                        Quotient(st.total_speaking_time, Max(st.segment_count, 1)),
                     wpm |->
                        IF st.total_speaking_time > 0
                        THEN Quotient(st.total_words * 60 * ONE_SECOND,
                                      st.total_speaking_time)
                        ELSE Quotient(0, 1),
                     speaking_ratio |->
                        Quotient(st.total_speaking_time,
                                 Max(total_audio_talk_time, ONE_SECOND)),
                     word_ratio |->
                        Quotient(st.total_words, Max(total_audio_words, 1))]]

RECURSIVE TotalWords(_)
\* sum(len((seg.get("text") or "").split()) for seg in speaker_segments)
TotalWords(segs) ==
    IF segs = <<>> THEN 0 ELSE SegWordCount(segs[1]) + TotalWords(Tail(segs))

\* mutant: the bounds are taken from the speaker segments
ConversationBounds_OfSegments(segs, diarization_segments) ==
    [start_time |-> segs[1].start, end_time |-> segs[Len(segs)].end]

\* start_time = diarization_segments[0]["start"],
\* end_time = diarization_segments[-1]["end"]
ConversationBounds(segs, diarization_segments) ==
    [start_time |-> diarization_segments[1].start,
     end_time |-> diarization_segments[Len(diarization_segments)].end]

ComputeConversationStats(segs, diarization_segments) ==
    IF segs = <<>> \/ diarization_segments = <<>> THEN <<>>
    ELSE LET start_time == ConversationBounds(segs, diarization_segments).start_time
             end_time == ConversationBounds(segs, diarization_segments).end_time
             total_duration == end_time - start_time
         IN  <<[total_duration |-> total_duration,
                total_segments |-> Len(segs),
                total_words |-> TotalWords(segs),
                avg_turn_length |-> Quotient(total_duration, Max(Len(segs), 1)),
                speaker_count |->
                    Cardinality({segs[i].speaker : i \in 1..Len(segs)}),
                conversation_start |-> start_time,
                conversation_end |-> end_time]>>

(***************************************************************************)
(* Inputs of the alignment specification: the route's payload with no or   *)
(* one ASR segment (any start/end pair on the grid, acoustic metadata      *)
(* absent, inside or outside its usual range) and a diarization list, in   *)
(* any order, of intervals with start <= end.  A diarization time carries  *)
(* a sub-millisecond part, so that round(x, 3) changes it.                 *)
(***************************************************************************)
\* asr_payload = {"text": text, "meta": meta, "segments": meta.get("segments", [])}
Payload(segs) ==
    [kind |-> "dict", segments |-> ListVal(segs), meta |-> DictVal(ListVal(segs))]

AlignGrid == {k * Step : k \in 0..MaxTA}

Jitter(k) == (k * 400) % 1000
DiarTime(k) == k * Step + Jitter(k)

\* (avg_logprob, no_speech_prob in thousandths) given by the recogniser
AcousticChoices == {<<0, 500>>, <<2, -500>>, <<-2, 1500>>}

\* the same, by position in the list of segments
AcousticOrder == <<<<0, 500>>, <<2, -500>>, <<-2, 1500>>>>

AcousticAt(i) == AcousticOrder[((i - 1) % Len(AcousticOrder)) + 1]

\* the recogniser's text, not yet stripped
AlignTexts == {<<SP, "a", SP, "b", SP>>}

AsrRecords ==
    {[start |-> s, end |-> e, text |-> t] :
        s \in AlignGrid, e \in AlignGrid, t \in AlignTexts}
    \cup
    {[start |-> s, end |-> e, text |-> t, avg_logprob |-> c[1],
      no_speech_prob |-> c[2]] :
        s \in AlignGrid, e \in AlignGrid, t \in AlignTexts, c \in AcousticChoices}

DiarIntervals(nspk, maxt) ==
    {[start |-> DiarTime(i), end |-> DiarTime(j), speaker |-> k] :
        i \in 0..maxt, j \in 0..maxt, k \in SpeakersUpTo(nspk)}

ValidDiarIntervals(nspk, maxt) ==
    {d \in DiarIntervals(nspk, maxt) : d.start <= d.end}

InitAlign ==
    /\ pc = "request"
    /\ \E segs \in SeqUpTo(AsrRecords, 1) : asr_result = Payload(segs)
    /\ diarization \in {xs \in SeqUpTo(ValidDiarIntervals(2, MaxTA), MaxDiar) :
                            CanonicalLabels(xs)}
    /\ asr = <<>>
    /\ words = <<>>
    /\ raw = <<>>
    /\ merged = <<>>
    /\ remerged = <<>>
    /\ speaker_segments = <<>>
    /\ conversation = <<>>
    /\ InitResults

\* aligned = align_transcript_with_speakers(asr_payload, segments)
AlignTranscript ==
    /\ pc = "request"
    /\ \E run \in {AlignRun(asr_result, diarization)} :
        /\ asr' = run.asr
        /\ words' = run.words
        /\ raw' = run.raw
        /\ merged' = run.merged
        /\ speaker_segments' = run.speaker_segments
    /\ pc' = "aligned"
    /\ UNCHANGED <<asr_result, diarization, remerged, conversation>>
    /\ UNCHANGED <<resultVars, callVars, serviceVars>>

\* speaker_stats = MetadataExtractor.compute_speaker_stats(speaker_segments)
SpeakerStats ==
    /\ pc = "aligned"
    /\ speaker_stats' = ComputeSpeakerStats(speaker_segments)
    /\ outcome' = [outcome EXCEPT !.compute_speaker_stats = "returned"]
    /\ pc' = "speaker_stats"
    /\ UNCHANGED <<asr_result, diarization, asr, words, raw, merged, remerged,
                   speaker_segments, conversation, conversation_stats, enriched,
                   heap, proc, serviceVars>>

\* conversation_stats = MetadataExtractor.compute_conversation_stats(
\*     speaker_segments, segments)
ConversationStats ==
    /\ pc = "speaker_stats"
    /\ conversation_stats' = ComputeConversationStats(speaker_segments, diarization)
    /\ outcome' = [outcome EXCEPT !.compute_conversation_stats = "returned"]
    /\ pc' = "conversation_stats"
    /\ UNCHANGED <<asr_result, diarization, asr, words, raw, merged, remerged,
                   speaker_segments, conversation, speaker_stats, enriched,
                   heap, proc, serviceVars>>

NextAlign == AlignTranscript \/ SpeakerStats \/ ConversationStats

SpecAlign == InitAlign /\ [][NextAlign]_vars

(***************************************************************************)
(* build_conversation                                                      *)
(***************************************************************************)
\* the keys of time_map in insertion order: the speakers of segs by first
\* appearance
RECURSIVE SpeakersInOrder(_)
SpeakersInOrder(segs) ==
    IF segs = <<>> THEN <<>>
    ELSE LET before == SpeakersInOrder(SubSeq(segs, 1, Len(segs) - 1))
             spk == segs[Len(segs)].speaker
         IN  IF \E i \in 1..Len(before) : before[i] = spk THEN before
             ELSE Append(before, spk)

\* time_map[spk]: the sum of seg["end"] - seg["start"] over spk's segments
RECURSIVE SpeakingTime(_, _)
SpeakingTime(segs, spk) ==
    IF segs = <<>> THEN 0
    ELSE SpeakingTime(Tail(segs), spk)
            + (IF Head(segs).speaker = spk THEN Head(segs).end - Head(segs).start
               ELSE 0)

\* time_map.items()
TimeMap(segs) ==
    LET order == SpeakersInOrder(segs)
    IN  [i \in 1..Len(order) |->
            [speaker |-> order[i], time |-> SpeakingTime(segs, order[i])]]

\* mutant: of two items of equal time the later one is placed first
RECURSIVE InsertByTimeDesc_TiesReversed(_, _)
InsertByTimeDesc_TiesReversed(x, s) ==
    IF s = <<>> THEN <<x>>
    ELSE IF s[Len(s)].time > x.time THEN Append(s, x)
    ELSE Append(InsertByTimeDesc_TiesReversed(x, SubSeq(s, 1, Len(s) - 1)),
                s[Len(s)])

\* sorted(items, key=lambda x: x[1], reverse=True): stable, descending
RECURSIVE InsertByTimeDesc(_, _)
InsertByTimeDesc(x, s) ==
    IF s = <<>> THEN <<x>>
    ELSE IF s[Len(s)].time >= x.time THEN Append(s, x)
    ELSE Append(InsertByTimeDesc(x, SubSeq(s, 1, Len(s) - 1)), s[Len(s)])

\* mutant: time_map.items() is left in insertion order
SortedByTimeDesc_Unsorted(s) == s

RECURSIVE SortedByTimeDesc(_)
SortedByTimeDesc(s) ==
    IF s = <<>> THEN <<>>
    ELSE InsertByTimeDesc(s[Len(s)], SortedByTimeDesc(SubSeq(s, 1, Len(s) - 1)))

\* roles.get(spk, spk) for the roles built from speaker_order
RoleOf(speaker_order, spk) ==
    IF Len(speaker_order) >= 2
    THEN IF spk = speaker_order[1].speaker THEN "CUSTOMER"
         ELSE IF spk = speaker_order[2].speaker THEN "AGENT"
         ELSE spk
    ELSE IF spk = speaker_order[1].speaker THEN "CUSTOMER" ELSE spk

\* mutant: the turn is extended on the gap alone, whoever speaks
SameTurn_AnySpeaker(current, seg) ==
    seg.start - current.end <= MAX_GAP

\* mutant: a segment that starts before the turn's end opens a new turn, as
\* in _merge_blocks
SameTurn_NoOverlap(current, seg) ==
    /\ current.speaker_raw = seg.speaker
    /\ 0 <= seg.start - current.end
    /\ seg.start - current.end <= MAX_GAP

\* mutant: the turn is extended by its speaker's segment, whatever the gap
SameTurn_AnyGap(current, seg) ==
    current.speaker_raw = seg.speaker

\* current["speaker_raw"] == spk and seg["start"] - current["end"] <= MAX_GAP
SameTurn(current, seg) ==
    /\ current.speaker_raw = seg.speaker
    /\ seg.start - current.end <= MAX_GAP

\* the timeline loop: conv is the list built so far, current the open turn
\* (<<>> for None, else <<turn>>)
RECURSIVE TurnLoop(_, _, _, _)
TurnLoop(segs, speaker_order, conv, current) ==
    IF segs = <<>> THEN conv \o current
    ELSE LET seg == Head(segs)
             spk == seg.speaker
             role == RoleOf(speaker_order, spk)
         IN  IF current /= <<>> /\ SameTurn(current[1], seg)
             THEN TurnLoop(Tail(segs), speaker_order, conv,
                    <<[current[1] EXCEPT
                        !.end = seg.end,
                        !.text = current[1].text \o <<SP>> \o seg.text]>>)
             ELSE TurnLoop(Tail(segs), speaker_order, conv \o current,
                    <<[start |-> seg.start, end |-> seg.end, speaker |-> role,
                       speaker_raw |-> spk, text |-> seg.text]>>)

\* the turns built from the speaker segments align returned
ConversationOf(aligned_segments) ==
    IF aligned_segments = <<>> THEN <<>>
    ELSE LET segments == SortedByStart(aligned_segments)
             speaker_order == SortedByTimeDesc(TimeMap(segments))
         IN  TurnLoop(segments, speaker_order, <<>>, <<>>)

BuildConversationOf(asr_res, diarization_result) ==
    ConversationOf(Align(asr_res, diarization_result))

(***************************************************************************)
(* Inputs of the conversation specification: one ASR segment over the      *)
(* whole time grid, of one word or of one word per grid step, and a        *)
(* diarization list, in any order, of up to three speakers' intervals      *)
(* with start <= end.                                                      *)
(***************************************************************************)
ConvAsrRecords ==
    {[start |-> 0, end |-> MaxTV * Step, text |-> TextOfWords(n)] : n \in {1, MaxTV}}

InitConv ==
    /\ pc = "request"
    /\ \E rec \in ConvAsrRecords : asr_result = Payload(<<rec>>)
    /\ diarization \in {xs \in SeqUpTo(ValidDiarIntervals(3, MaxTV), MaxDiarV) :
                            CanonicalLabels(xs)}
    /\ asr = <<>>
    /\ words = <<>>
    /\ raw = <<>>
    /\ merged = <<>>
    /\ remerged = <<>>
    /\ speaker_segments = <<>>
    /\ conversation = <<>>
    /\ InitResults

\* conversation = build_conversation({...}, segments); speaker_segments holds
\* its local aligned["speaker_segments"]
BuildConversation ==
    /\ pc = "request"
    /\ \E run \in {AlignRun(asr_result, diarization)} :
        /\ asr' = run.asr
        /\ words' = run.words
        /\ raw' = run.raw
        /\ merged' = run.merged
        /\ speaker_segments' = run.speaker_segments
        /\ conversation' = ConversationOf(run.speaker_segments)
    /\ pc' = "conversation"
    /\ UNCHANGED <<asr_result, diarization, remerged>>
    /\ UNCHANGED <<resultVars, callVars, serviceVars>>

NextConv == BuildConversation

SpecConv == InitConv /\ [][NextConv]_vars

(***************************************************************************)
(* Steps 3 to 5 of the route on loosely typed inputs (SpecLoose).          *)
(*                                                                         *)
(* A Python value whose type is not known is NoneVal, NumVal(n),           *)
(* StrVal(t), ListVal(s) or RecordVal(f), f the function from a dict's     *)
(* keys to its values (a speaker label is kept as a plain string).  For    *)
(* each statement that can raise on such a value there is a predicate      *)
(* saying when it does; where nothing raises, the values are converted     *)
(* (Float, TypedEntry, TypedDiar) and the functions above apply.           *)
(***************************************************************************)
NumVal(n) == [tag |-> "num", num |-> n]
StrVal(t) == [tag |-> "str", str |-> t]
RecordVal(f) == [tag |-> "record", items |-> f]

KeyChars == [start |-> <<"s", "t", "a", "r", "t">>, end |-> <<"e", "n", "d">>]

\* u in t, for two strings
HasSubstring(t, u) ==
    \E i \in 0..(Len(t) - Len(u)) : SubSeq(t, i + 1, i + Len(u)) = u

\* `key in s` raises TypeError: s is no container
InRaises(s) == s.tag \in {"num", "none"}

\* key in s, for a dict or a string s
In(key, s) ==
    IF s.tag = "record" THEN key \in DOMAIN s.items
    ELSE HasSubstring(s.str, KeyChars[key])

Digits == <<"0", "1", "2", "3", "4", "5", "6", "7", "8", "9">>

\* the strings float() accepts; of these the model has the digit strings
IsNumeral(t) ==
    t /= <<>> /\ \A i \in 1..Len(t) : \E d \in 1..Len(Digits) : t[i] = Digits[d]

RECURSIVE NumeralValue(_)
NumeralValue(t) ==
    IF t = <<>> THEN 0
    ELSE 10 * NumeralValue(SubSeq(t, 1, Len(t) - 1))
            + (CHOOSE d \in 0..9 : Digits[d + 1] = t[Len(t)])

\* float(v) raises TypeError (None, a container) or ValueError (a string
\* that is no numeral)
FloatRaises(v) ==
    \/ v.tag \in {"none", "record", "list"}
    \/ v.tag = "str" /\ ~IsNumeral(v.str)

\* float(v), in microseconds
Float(v) == IF v.tag = "num" THEN v.num ELSE NumeralValue(v.str) * ONE_SECOND

\* bool(v)
Truthy(v) ==
    CASE v.tag = "none" -> FALSE
      [] v.tag = "num" -> v.num /= 0
      [] v.tag = "str" -> v.str /= <<>>
      [] v.tag = "list" -> v.v /= <<>>
      [] v.tag = "record" -> DOMAIN v.items /= {}

\* the body of `for s in segs` raises on s: `"start" not in s` on a
\* non-container, s["start"] on a string, float() of start or end, or
\* .strip() of a truthy text that is no string
EntryRaises(s) ==
    IF InRaises(s) THEN TRUE
    ELSE IF ~In("start", s) \/ ~In("end", s) THEN FALSE
    ELSE IF s.tag /= "record" THEN TRUE
    ELSE \/ FloatRaises(s.items["start"])
         \/ FloatRaises(s.items["end"])
         \/ /\ "text" \in DOMAIN s.items
            /\ Truthy(s.items["text"])
            /\ s.items["text"].tag /= "str"

\* s is appended to norm (given that the body does not raise on it)
EntryKept(s) == ~InRaises(s) /\ In("start", s) /\ In("end", s)

\* math.exp(x) raises OverflowError for x above 709.78...
EXP_MAX == 709

\* _confidence_from_whisper(seg) raises: -avg_logprob or 1.0 - no_speech_prob
\* of a non-number, or math.exp out of range
AcousticRaises(s) ==
    \/ /\ "avg_logprob" \in DOMAIN s.items
       /\ \/ s.items["avg_logprob"].tag /= "num"
          \/ -(s.items["avg_logprob"].num) > EXP_MAX
    \/ /\ "no_speech_prob" \in DOMAIN s.items
       /\ s.items["no_speech_prob"].tag /= "num"

\* the record s with its values converted, for an entry on which nothing
\* raises; an acoustic value that would raise is replaced by its default
TypedEntry(s) ==
    IF s.tag /= "record" \/ EntryRaises(s) THEN s
    ELSE [k \in DOMAIN s.items |->
            CASE k \in {"start", "end"} -> Float(s.items[k])
              [] k = "text" ->
                    IF Truthy(s.items[k]) THEN s.items[k].str ELSE <<>>
              [] k = "avg_logprob" ->
                    IF AcousticRaises(s) THEN DEFAULT_AVG_LOGPROB
                    ELSE s.items[k].num
              [] k = "no_speech_prob" ->
                    IF AcousticRaises(s) THEN DEFAULT_NO_SPEECH_PROB
                    ELSE s.items[k].num
              [] OTHER -> s.items[k]]

\* the entries of the selected list, <<>> when there is none
LooseSegments(asr_res) ==
    LET segs == SelectSegments(asr_res)
    IN  IF segs.tag = "list" THEN segs.v ELSE <<>>

\* _extract_asr_segments(asr_result) raises
ExtractRaises(asr_res) ==
    \E i \in 1..Len(LooseSegments(asr_res)) : EntryRaises(LooseSegments(asr_res)[i])

\* the selected list with its entries converted
TypedAsr(asr_res) ==
    LET segs == LooseSegments(asr_res)
    IN  [kind |-> "list", items |-> [i \in 1..Len(segs) |-> TypedEntry(segs[i])]]

\* the entries norm is built from, in order
KeptEntries(asr_res) == SelectSeq(LooseSegments(asr_res), EntryKept)

\* diarization_result or []
DiarList(v) == IF v.tag = "list" THEN v.v ELSE <<>>

IsNum(d, key) == key \in DOMAIN d.items /\ d.items[key].tag = "num"

\* _align_words_to_diarization(words, diar) raises: KeyError for a missing
\* start (the sort key), end or speaker; TypeError when start keys are
\* compared and one is None, when w["end"] <= None is evaluated, and when
\* w["start"] >= None is, which happens for a word with w["end"] > d_start
AlignWordsRaises(word_segments, diar) ==
    /\ word_segments /= <<>>
    /\ diar /= <<>>
    /\ \E i \in 1..Len(diar) :
        LET d == diar[i]
        IN  \/ {"start", "end", "speaker"} \ DOMAIN d.items /= {}
            \/ d.items["start"].tag /= "num"
            \/ /\ d.items["end"].tag /= "num"
               /\ \E j \in 1..Len(word_segments) :
                    ~(word_segments[j].end <= d.items["start"].num * WScale)

TypedInterval(d) ==
    [start |-> d.items["start"].num, end |-> d.items["end"].num,
     speaker |-> d.items["speaker"]]

CompleteInterval(d) ==
    IsNum(d, "start") /\ IsNum(d, "end") /\ "speaker" \in DOMAIN d.items

\* the intervals that can yield a raw segment, converted
TypedDiar(diar) ==
    LET kept == SelectSeq(diar, CompleteInterval)
    IN  [i \in 1..Len(kept) |-> TypedInterval(kept[i])]

\* the loop `for seg in merged` raises: the best ASR segment of a block has
\* acoustic values on which _confidence_from_whisper raises
ConfidenceRaises(run, kept) ==
    \E i \in 1..Len(run.merged) :
        LET best == BestDiarForAsr([start |-> run.merged[i].start,
                                    end |-> run.merged[i].end], run.asr)
        IN  best /= 0 /\ AcousticRaises(kept[best])

\* EnhancedAligner.align(asr_result, diarization_result): what it returns,
\* or that it raises
LooseAlign(asr_res, diarization_result) ==
    LET diar == DiarList(diarization_result)
        asr_segs == ExtractAsrSegments(TypedAsr(asr_res))
        run == AlignRun(TypedAsr(asr_res), TypedDiar(diar))
    IN  IF ExtractRaises(asr_res) THEN [raised |-> TRUE, speaker_segments |-> <<>>]
        ELSE IF asr_segs = <<>> \/ diar = <<>>
        THEN [raised |-> FALSE, speaker_segments |-> <<>>]
        ELSE IF AlignWordsRaises(ToWordSegments(asr_segs), diar)
        THEN [raised |-> TRUE, speaker_segments |-> <<>>]
        ELSE IF ConfidenceRaises(run, KeptEntries(asr_res))
        THEN [raised |-> TRUE, speaker_segments |-> <<>>]
        ELSE [raised |-> FALSE, speaker_segments |-> run.speaker_segments]

\* compute_conversation_stats raises: KeyError for a first interval without
\* start or a last one without end, TypeError for end_time - start_time
\* when one of them is None
ConversationStatsRaises(segs, diarization_segments) ==
    LET diar == DiarList(diarization_segments)
    IN  /\ segs /= <<>>
        /\ diar /= <<>>
        /\ ~(IsNum(diar[1], "start") /\ IsNum(diar[Len(diar)], "end"))

\* the first start and the last end of the list as given
EndsOf(diar) ==
    IF diar = <<>> THEN <<>>
    ELSE <<[start |-> diar[1].items["start"].num,
            end |-> diar[Len(diar)].items["end"].num]>>

(***************************************************************************)
(* Inputs of SpecLoose: an ASR result of any shape whose list has up to    *)
(* MaxLooseAsr entries, each a usable record or one that is degenerate in  *)
(* one way, and a diarization value that is None or a list of up to        *)
(* MaxLooseDiar records, each usable or degenerate in one way.             *)
(***************************************************************************)
MaxLooseAsr == 1
MaxLooseDiar == 2

GoodAsrEntry ==
    [start |-> NumVal(0), end |-> NumVal(2 * Step),
     text |-> StrVal(<<"a", SP, "b">>)]

Without(f, key) == [k \in DOMAIN f \ {key} |-> f[k]]
With(f, key, v) == [k \in DOMAIN f \cup {key} |-> IF k = key THEN v ELSE f[k]]

LooseAsrEntries ==
    {NumVal(5), NoneVal, StrVal(<<"a">>), StrVal(KeyChars["start"] \o KeyChars["end"])}
    \cup
    {RecordVal(f) : f \in
        {GoodAsrEntry,
         Without(GoodAsrEntry, "start"),
         Without(GoodAsrEntry, "text"),
         With(GoodAsrEntry, "start", NoneVal),
         With(GoodAsrEntry, "start", StrVal(<<"x">>)),
         With(GoodAsrEntry, "start", StrVal(<<"0">>)),
         With(GoodAsrEntry, "end", NoneVal),
         With(GoodAsrEntry, "text", NoneVal),
         With(GoodAsrEntry, "text", NumVal(5)),
         With(GoodAsrEntry, "avg_logprob", NoneVal),
         With(GoodAsrEntry, "avg_logprob", NumVal(-1000)),
         With(GoodAsrEntry, "avg_logprob", NumVal(0))}}

LooseAsrResults ==
    {[kind |-> "other"]}
    \cup {[kind |-> "list", items |-> xs] : xs \in SeqUpTo(LooseAsrEntries, MaxLooseAsr)}
    \cup {[kind |-> "dict", segments |-> ListVal(xs), meta |-> NoneVal] :
            xs \in SeqUpTo(LooseAsrEntries, MaxLooseAsr)}
    \cup {[kind |-> "dict", segments |-> NoneVal, meta |-> DictVal(ListVal(xs))] :
            xs \in SeqUpTo(LooseAsrEntries, MaxLooseAsr)}
    \cup {[kind |-> "dict", segments |-> NoneVal, meta |-> m] :
            m \in {NoneVal, DictVal(NoneVal)}}

GoodInterval(i, j, spk) ==
    [start |-> NumVal(DiarTime(i)), end |-> NumVal(DiarTime(j)), speaker |-> spk]

LooseDiarEntries ==
    {RecordVal(f) : f \in
        {GoodInterval(0, 1, Speakers[1]),
         GoodInterval(1, 2, Speakers[2]),
         GoodInterval(3, 4, Speakers[1]),
         Without(GoodInterval(0, 1, Speakers[1]), "start"),
         Without(GoodInterval(0, 1, Speakers[1]), "end"),
         Without(GoodInterval(0, 1, Speakers[1]), "speaker"),
         With(GoodInterval(0, 1, Speakers[1]), "start", NoneVal),
         With(GoodInterval(0, 1, Speakers[1]), "end", NoneVal),
         With(GoodInterval(3, 4, Speakers[1]), "end", NoneVal)}}

LooseDiarizations ==
    {NoneVal} \cup {ListVal(xs) : xs \in SeqUpTo(LooseDiarEntries, MaxLooseDiar)}

InitLoose ==
    /\ pc = "request"
    /\ asr_result \in LooseAsrResults
    /\ diarization \in LooseDiarizations
    /\ asr = <<>>
    /\ words = <<>>
    /\ raw = <<>>
    /\ merged = <<>>
    /\ remerged = <<>>
    /\ speaker_segments = <<>>
    /\ conversation = <<>>
    /\ InitResults

\* step 3: aligned = align_transcript_with_speakers(asr_payload, segments);
\* the route catches an exception and goes on with speaker_segments = []
LooseAlignTranscript ==
    /\ pc = "request"
    /\ \E res \in {LooseAlign(asr_result, diarization)} :
        /\ speaker_segments' = res.speaker_segments
        /\ outcome' = [outcome EXCEPT
                        !.align = IF res.raised THEN "raised" ELSE "returned"]
    /\ pc' = "aligned"
    /\ UNCHANGED <<asr_result, diarization, asr, words, raw, merged, remerged,
                   conversation, speaker_stats, conversation_stats, enriched,
                   heap, proc, serviceVars>>

\* step 4: conversation = build_conversation(...), which aligns again; the
\* route catches an exception and goes on with conversation = []
LooseBuildConversation ==
    /\ pc = "aligned"
    /\ \E res \in {LooseAlign(asr_result, diarization)} :
        /\ conversation' = ConversationOf(res.speaker_segments)
        /\ outcome' = [outcome EXCEPT
                        !.build_conversation =
                            IF res.raised THEN "raised" ELSE "returned"]
    /\ pc' = "conversation"
    /\ UNCHANGED <<asr_result, diarization, asr, words, raw, merged, remerged,
                   speaker_segments, speaker_stats, conversation_stats, enriched,
                   heap, proc, serviceVars>>

\* step 5: speaker_stats = compute_speaker_stats(speaker_segments)
LooseSpeakerStats ==
    /\ pc = "conversation"
    /\ speaker_stats' = ComputeSpeakerStats(speaker_segments)
    /\ outcome' = [outcome EXCEPT !.compute_speaker_stats = "returned"]
    /\ pc' = "speaker_stats"
    /\ UNCHANGED <<asr_result, diarization, asr, words, raw, merged, remerged,
                   speaker_segments, conversation, conversation_stats, enriched,
                   heap, proc, serviceVars>>

\* step 5: conversation_stats = compute_conversation_stats(speaker_segments,
\* segments)
LooseConversationStats ==
    /\ pc = "speaker_stats"
    /\ IF ConversationStatsRaises(speaker_segments, diarization)
       THEN /\ outcome' = [outcome EXCEPT !.compute_conversation_stats = "raised"]
            /\ UNCHANGED conversation_stats
       ELSE /\ outcome' = [outcome EXCEPT !.compute_conversation_stats = "returned"]
            /\ conversation_stats' =
                ComputeConversationStats(speaker_segments,
                                         EndsOf(DiarList(diarization)))
    /\ pc' = "conversation_stats"
    /\ UNCHANGED <<asr_result, diarization, asr, words, raw, merged, remerged,
                   speaker_segments, conversation, speaker_stats, enriched,
                   heap, proc, serviceVars>>

NextLoose ==
    \/ LooseAlignTranscript
    \/ LooseBuildConversation
    \/ LooseSpeakerStats
    \/ LooseConversationStats

SpecLoose == InitLoose /\ [][NextLoose]_vars

(***************************************************************************)
(* Inputs of the scenario specification (SpecScenario): up to MaxSpans     *)
(* ASR segments in start order over pairwise disjoint spans of positive    *)
(* duration (touching or apart, times with a sub-millisecond part), each   *)
(* with its own words, and a diarization list, in any order, of exactly    *)
(* those spans, consecutive spans with different speakers.                 *)
(***************************************************************************)
MaxSpans == 3
MaxTS == 4
\* the requests whose speaker segments are enriched: spans and times
MaxEnrichSpans == 2
MaxTE == 2

\* the recogniser's text of the i-th segment, not yet stripped
ScenarioText(i) == <<SP>> \o RawText(i) \o <<SP>>

ScenarioSpans ==
    {c \in (0..Max(MaxTS, MaxTE)) \X (0..Max(MaxTS, MaxTE)) : c[1] < c[2]}

\* the requests of the scenario with up to n_max spans over times 0..t_max
ScenarioRequest(n_max, t_max) ==
    \E n \in 1..n_max :
        \E span \in [1..n -> {c \in ScenarioSpans : c[2] <= t_max}],
           spk \in [1..n -> SpeakersUpTo(3)],
           order \in Permutations(1..n) :
            /\ \A i \in 1..(n - 1) :
                span[i][2] <= span[i + 1][1] /\ spk[i] /= spk[i + 1]
            /\ asr_result =
                Payload([i \in 1..n |->
                    [start |-> DiarTime(span[i][1]),
                     end |-> DiarTime(span[i][2]),
                     text |-> ScenarioText(i)]])
            /\ diarization =
                [i \in 1..n |->
                    [start |-> DiarTime(span[order[i]][1]),
                     end |-> DiarTime(span[order[i]][2]),
                     speaker |-> spk[order[i]]]]

InitScenario ==
    /\ pc = "request"
    /\ ScenarioRequest(MaxSpans, MaxTS)
    /\ asr = <<>>
    /\ words = <<>>
    /\ raw = <<>>
    /\ merged = <<>>
    /\ remerged = <<>>
    /\ speaker_segments = <<>>
    /\ conversation = <<>>
    /\ InitResults

SpecScenario == InitScenario /\ [][NextAlign]_vars

(***************************************************************************)
(* Step 6 of the route: the enrichment stages (SpecEnrich).                *)
(*                                                                         *)
(* A segment dict is the function from its keys; a stage copies it and     *)
(* sets keys.  What the sentiment pipeline and the pitch estimate give is  *)
(* outside the program: any of PipelineResults, GenderResults.  The        *)
(* ranking of keyword candidates is not modelled: the keywords are the     *)
(* first top_k words of the text.  Scores are in thousandths.              *)
(***************************************************************************)
\* mutant: the stage returns a fresh dict with the new key only
SetItem_Fresh(seg, key, v) == [k \in {key} |-> v]

\* enriched = dict(seg); enriched[key] = v  (also {**seg, key: v}, and
\* seg[key] = v on the dict itself)
SetItem(seg, key, v) ==
    [k \in DOMAIN seg \cup {key} |-> IF k = key THEN v ELSE seg[k]]

MIN_WORDS_FOR_STRONG_SENTIMENT == 4
LOW_CONFIDENCE_THRESHOLD == 650
VERY_LOW_CONFIDENCE == 500
SHORT_TEXT_CONFIDENCE == 800
TOP_K == 5

\* res = pip(clean[:512])[0], its label already mapped by _map_label
PipelineResults ==
    {[label |-> "positive", score |-> 900],
     [label |-> "negative", score |-> 700],
     [label |-> "positive", score |-> 600]}

Neutral(score) == [label |-> "neutral", score |-> score]

\* SentimentService.analyze_text(text), res being the pipeline's result
AnalyzeText(text, res) ==
    IF Strip(text) = <<>> THEN Neutral(0)
    ELSE IF Len(Split(text)) < MIN_WORDS_FOR_STRONG_SENTIMENT
    THEN IF res.score < SHORT_TEXT_CONFIDENCE THEN Neutral(res.score) ELSE res
    ELSE IF res.score < VERY_LOW_CONFIDENCE THEN Neutral(res.score)
    ELSE IF /\ res.label \in {"positive", "negative"}
            /\ res.score < LOW_CONFIDENCE_THRESHOLD
    THEN Neutral(res.score)
    ELSE res

\* KeywordService.extract_keywords(text, top_k)
ExtractKeywords(text, top_k) ==
    IF Strip(text) = <<>> THEN <<>>
    ELSE SubSeq(Split(text), 1, Min(top_k, Len(Split(text))))

\* SentimentService.analyze_speaker_segments(segments); res[i] is the
\* pipeline's result for segment i
SentimentSegments(segments, res) ==
    [i \in 1..Len(segments) |->
        LET seg == segments[i]
            sentiment == AnalyzeText(seg["text"], res[i])
        IN  SetItem(SetItem(SetItem(seg, "sentiment", sentiment.label),
                            "sentiment_score", sentiment.score),
                    "keywords", ExtractKeywords(seg["text"], TOP_K))]

\* KeywordService.extract_keywords_per_segment(speaker_segments)
KeywordsPerSegment(segments) ==
    [i \in 1..Len(segments) |->
        SetItem(segments[i], "keywords",
                ExtractKeywords(segments[i]["text"], TOP_K))]

\* what infer_gender_from_audio can return
GenderResults ==
    {[gender |-> "unknown", confidence |-> 0],
     [gender |-> "male", confidence |-> 850],
     [gender |-> "female", confidence |-> 850],
     [gender |-> "unknown", confidence |-> 400]}

\* GenderService.add_gender_to_segments(speaker_segments, wav_path); res[i]
\* is what infer_gender_from_audio returns for segment i
AddGenderToSegments(segments, res) ==
    [i \in 1..Len(segments) |->
        SetItem(SetItem(segments[i], "gender", res[i].gender),
                "gender_confidence", res[i].confidence)]

BASIC_EMOTIONS == {"neutral", "happy", "sad", "angry", "fear"}

AngryWords ==
    {<<"a", "n", "g", "r", "y">>, <<"m", "a", "d">>,
     <<"f", "u", "r", "i", "o", "u", "s">>, <<"c", "r", "a", "p">>,
     <<"s", "t", "u", "p", "i", "d">>, <<"i", "d", "i", "o", "t">>}

SadWords ==
    {<<"s", "o", "r", "r", "y">>, <<"s", "a", "d">>,
     <<"u", "p", "s", "e", "t">>, <<"b", "a", "d", SP, "n", "e", "w", "s">>}

HappyWords ==
    {<<"g", "r", "e", "a", "t">>, <<"a", "w", "e", "s", "o", "m", "e">>,
     <<"a", "m", "a", "z", "i", "n", "g">>,
     <<"n", "i", "c", "e", SP, "h", "o", "l", "i", "d", "a", "y">>,
     <<"h", "a", "p", "p", "y">>}

\* any(w in text for w in ws); the texts of the model are in lower case
AnyIn(ws, text) == \E w \in ws : HasSubstring(text, w)

\* EmotionService._fallback_from_text_segment(segment)
FallbackFromTextSegment(segment) ==
    LET text == segment["text"]
        sentiment == Get(segment, "sentiment", "neutral")
        emotion ==
            IF AnyIn(AngryWords, text) THEN "angry"
            ELSE IF AnyIn(SadWords, text) THEN "sad"
            ELSE IF AnyIn(HappyWords, text) THEN "happy"
            ELSE IF sentiment = "positive" THEN "happy"
            ELSE IF sentiment = "negative" THEN "sad"
            ELSE "neutral"
    IN  [emotion |-> emotion,
         emotion_scores |->
            [e \in BASIC_EMOTIONS |-> IF e = emotion THEN 1000 ELSE 0]]

\* EmotionService.analyze_speaker_segments(wav_path, speaker_segments)
EmotionSegments(segments) ==
    IF segments = <<>> THEN segments
    ELSE [i \in 1..Len(segments) |->
            LET emo_data == FallbackFromTextSegment(segments[i])
            IN  SetItem(SetItem(segments[i], "emotion", emo_data.emotion),
                        "emotion_scores", emo_data.emotion_scores)]

InitEnrich ==
    /\ pc = "request"
    /\ ScenarioRequest(MaxEnrichSpans, MaxTE)
    /\ asr = <<>>
    /\ words = <<>>
    /\ raw = <<>>
    /\ merged = <<>>
    /\ remerged = <<>>
    /\ speaker_segments = <<>>
    /\ conversation = <<>>
    /\ InitResults

stageVars ==
    <<asr_result, diarization, asr, words, raw, merged, remerged,
      speaker_segments, conversation, outcome, speaker_stats,
      conversation_stats, heap, proc, serviceVars>>

\* speaker_segments = SentimentService.analyze_speaker_segments(speaker_segments)
Sentiment ==
    /\ pc = "conversation_stats"
    /\ speaker_segments /= <<>>
    /\ \E res \in [1..Len(speaker_segments) -> PipelineResults] :
        enriched' = SentimentSegments(speaker_segments, res)
    /\ pc' = "sentiment"
    /\ UNCHANGED stageVars

\* speaker_segments = KeywordService.extract_keywords_per_segment(speaker_segments)
Keywords ==
    /\ pc = "sentiment"
    /\ enriched' = KeywordsPerSegment(enriched)
    /\ pc' = "keywords"
    /\ UNCHANGED stageVars

\* speaker_segments = GenderService.add_gender_to_segments(speaker_segments, wav_path)
Gender ==
    /\ pc = "keywords"
    /\ \E res \in [1..Len(enriched) -> GenderResults] :
        enriched' = AddGenderToSegments(enriched, res)
    /\ pc' = "gender"
    /\ UNCHANGED stageVars

\* speaker_segments = EmotionService.analyze_speaker_segments(wav_path, speaker_segments)
Emotion ==
    /\ pc = "gender"
    /\ enriched /= <<>>
    /\ enriched' = EmotionSegments(enriched)
    /\ pc' = "emotion"
    /\ UNCHANGED stageVars

NextEnrich == NextAlign \/ Sentiment \/ Keywords \/ Gender \/ Emotion

SpecEnrich == InitEnrich /\ [][NextEnrich]_vars

(***************************************************************************)
(* Inputs of the extraction specification (SpecExtract): every shape of    *)
(* ASR result, with lists of up to MaxExtract records.  The record at      *)
(* position i has times and a letter of its own, its text is not trimmed,  *)
(* and it lacks any one of its keys, or both acoustic keys, or start and   *)
(* end.  A dict with a top-level list has no meta, or a meta with a list   *)
(* of its own.                                                             *)
(***************************************************************************)
MaxExtract == 2

ExtractKeys == {"start", "end", "text", "avg_logprob", "no_speech_prob"}

\* the record of the recogniser at position i of a list
FullRecord(i) ==
    [start |-> i * Step, end |-> (i + 1) * Step,
     text |-> <<SP, Letters[i], SP, SP, Letters[i], SP>>,
     avg_logprob |-> AcousticAt(i)[1], no_speech_prob |-> AcousticAt(i)[2]]

MissingKeys ==
    {{}} \cup {{k} : k \in ExtractKeys}
         \cup {{"avg_logprob", "no_speech_prob"}, {"start", "end"}}

ExtractLists ==
    UNION {{[i \in 1..n |-> [k \in ExtractKeys \ miss[i] |-> FullRecord(i)[k]]] :
                miss \in [1..n -> MissingKeys]} : n \in 0..MaxExtract}

\* the list under meta of a dict that has a top-level list too
MetaList ==
    <<[start |-> 0, end |-> Step, text |-> <<Letters[Len(Letters)]>>]>>

ExtractInputs ==
    {[kind |-> "other"]}
    \cup {[kind |-> "list", items |-> xs] : xs \in ExtractLists}
    \cup {[kind |-> "dict", segments |-> NoneVal, meta |-> m] :
            m \in {NoneVal, DictVal(NoneVal)}}
    \cup {[kind |-> "dict", segments |-> NoneVal, meta |-> DictVal(ListVal(xs))] :
            xs \in ExtractLists}
    \cup {[kind |-> "dict", segments |-> ListVal(xs), meta |-> m] :
            xs \in ExtractLists, m \in {NoneVal, DictVal(ListVal(MetaList))}}

InitExtract ==
    /\ pc = "asr_result"
    /\ asr_result \in ExtractInputs
    /\ diarization = <<>>
    /\ asr = <<>>
    /\ words = <<>>
    /\ raw = <<>>
    /\ merged = <<>>
    /\ remerged = <<>>
    /\ speaker_segments = <<>>
    /\ conversation = <<>>
    /\ InitResults

\* asr = cls._extract_asr_segments(asr_result)
ExtractSegments ==
    /\ pc = "asr_result"
    /\ asr' = ExtractAsrSegments(asr_result)
    /\ pc' = "extracted"
    /\ UNCHANGED <<asr_result, diarization, words, raw, merged, remerged,
                   speaker_segments, conversation>>
    /\ UNCHANGED <<resultVars, callVars, serviceVars>>

SpecExtract == InitExtract /\ [][ExtractSegments]_vars

(***************************************************************************)
(* Inputs of the turn specification (SpecTurns): a request whose           *)
(* diarization is a chain of up to MaxChain intervals, each of 1..MaxDurT  *)
(* grid steps, each starting -1..MaxGapT steps after the end of the one    *)
(* before it (-1: they overlap), of one or two speakers; the ASR segment   *)
(* spans the chain with two words, so every interval has a word.           *)
(***************************************************************************)
MaxChain == 3
MaxDurT == 2
MaxGapT == 3

RECURSIVE ChainStart(_, _, _)
\* the grid position of the start of the i-th interval of the chain
ChainStart(dur, gap, i) ==
    IF i = 1 THEN 0 ELSE ChainStart(dur, gap, i - 1) + dur[i - 1] + gap[i]

InitTurns ==
    /\ pc = "request"
    /\ \E n \in 1..MaxChain :
        \E dur \in [1..n -> 1..MaxDurT], gap \in [1..n -> (-1)..MaxGapT],
           spk \in [1..n -> SpeakersUpTo(2)] :
            /\ gap[1] = 0
            /\ diarization =
                [i \in 1..n |->
                    [start |-> DiarTime(ChainStart(dur, gap, i)),
                     end |-> DiarTime(ChainStart(dur, gap, i) + dur[i]),
                     speaker |-> spk[i]]]
            /\ CanonicalLabels(diarization)
            /\ asr_result =
                Payload(<<[start |-> 0,
                          end |-> (ChainStart(dur, gap, n) + dur[n]) * Step,
                          text |-> TextOfWords(2)]>>)
    /\ asr = <<>>
    /\ words = <<>>
    /\ raw = <<>>
    /\ merged = <<>>
    /\ remerged = <<>>
    /\ speaker_segments = <<>>
    /\ conversation = <<>>
    /\ InitResults

SpecTurns == InitTurns /\ [][BuildConversation]_vars

\* the same requests through steps 3 and 5 of the route
SpecChainStats == InitTurns /\ [][NextAlign]_vars

(***************************************************************************)
(* Inputs of the word-mapping specification (SpecMap): the arguments of    *)
(* _align_words_to_diarization.  Up to MaxWordsP word intervals of         *)
(* positive duration in any order, each with a letter of its own as its    *)
(* word, and up to MaxDiarP diarization intervals of positive duration in  *)
(* any order, the speakers alternating along the list; diarization times   *)
(* have a sub-millisecond part.                                            *)
(***************************************************************************)
MaxWordsP == 2
MaxDiarP == 2
MaxTP == 2

MapSpans == {c \in (0..MaxTP) \X (0..MaxTP) : c[1] < c[2]}

InitMap ==
    /\ pc = "words"
    /\ \E n \in 0..MaxWordsP : \E span \in [1..n -> MapSpans] :
        words =
            [i \in 1..n |->
                [start |-> span[i][1] * Step * WScale,
                 end |-> span[i][2] * Step * WScale,
                 word |-> <<Letters[i]>>]]
    /\ \E m \in 0..MaxDiarP : \E span \in [1..m -> MapSpans] :
        diarization =
            [i \in 1..m |->
                [start |-> DiarTime(span[i][1]), end |-> DiarTime(span[i][2]),
                 speaker |-> Speakers[((i - 1) % 2) + 1]]]
    /\ asr_result = Payload(<<>>)
    /\ asr = <<>>
    /\ raw = <<>>
    /\ merged = <<>>
    /\ remerged = <<>>
    /\ speaker_segments = <<>>
    /\ conversation = <<>>
    /\ InitResults

\* raw = cls._align_words_to_diarization(words, diar)
MapWords ==
    /\ pc = "words"
    /\ raw' = AlignWordsToDiarization(words, diarization)
    /\ pc' = "mapped"
    /\ UNCHANGED <<asr_result, diarization, asr, words, merged, remerged,
                   speaker_segments, conversation>>
    /\ UNCHANGED <<resultVars, callVars, serviceVars>>

SpecMap == InitMap /\ [][MapWords]_vars

(***************************************************************************)
(* Inputs of the confidence specification (SpecBest): up to MaxAsrB ASR    *)
(* segments of one word each, in any order, with any spans on the grid     *)
(* (overlapping, equal and zero-duration ones included), the segment at    *)
(* each position of the list with acoustic metadata of its own; and up to  *)
(* MaxDiarB intervals of positive duration of one speaker, listed by       *)
(* start.                                                                  *)
(***************************************************************************)
MaxAsrB == 2
MaxTB == 2
MaxDiarB == 2

BestSpans == {c \in (0..MaxTB) \X (0..MaxTB) : c[1] <= c[2]}

InitBest ==
    /\ pc = "request"
    /\ \E n \in 0..MaxAsrB : \E span \in [1..n -> BestSpans] :
        asr_result =
            Payload([i \in 1..n |->
                [start |-> span[i][1] * Step, end |-> span[i][2] * Step,
                 text |-> <<Letters[i]>>,
                 avg_logprob |-> AcousticAt(i)[1],
                 no_speech_prob |-> AcousticAt(i)[2]]])
    /\ \E m \in 0..MaxDiarB :
        \E span \in [1..m -> {c \in BestSpans : c[1] < c[2]}] :
            /\ \A i \in 1..(m - 1) : span[i][1] <= span[i + 1][1]
            /\ diarization =
                [i \in 1..m |->
                    [start |-> DiarTime(span[i][1]), end |-> DiarTime(span[i][2]),
                     speaker |-> Speakers[1]]]
    /\ asr = <<>>
    /\ words = <<>>
    /\ raw = <<>>
    /\ merged = <<>>
    /\ remerged = <<>>
    /\ speaker_segments = <<>>
    /\ conversation = <<>>
    /\ InitResults

SpecBest == InitBest /\ [][AlignTranscript]_vars

(***************************************************************************)
(* Inputs of the exact-time specification (SpecExact): the ASR lists of    *)
(* SpecBest, and diarization intervals of positive duration whose times    *)
(* are whole milliseconds, so that round(x, 3) leaves them as they are.    *)
(***************************************************************************)
InitExact ==
    /\ pc = "request"
    /\ \E n \in 0..MaxAsrB : \E span \in [1..n -> BestSpans] :
        asr_result =
            Payload([i \in 1..n |->
                [start |-> span[i][1] * Step, end |-> span[i][2] * Step,
                 text |-> <<Letters[i]>>,
                 avg_logprob |-> AcousticAt(i)[1],
                 no_speech_prob |-> AcousticAt(i)[2]]])
    /\ \E m \in 0..MaxDiarB :
        \E span \in [1..m -> {c \in BestSpans : c[1] < c[2]}] :
            /\ \A i \in 1..(m - 1) : span[i][1] <= span[i + 1][1]
            /\ diarization =
                [i \in 1..m |->
                    [start |-> span[i][1] * Step, end |-> span[i][2] * Step,
                     speaker |-> Speakers[1]]]
    /\ asr = <<>>
    /\ words = <<>>
    /\ raw = <<>>
    /\ merged = <<>>
    /\ remerged = <<>>
    /\ speaker_segments = <<>>
    /\ conversation = <<>>
    /\ InitResults

SpecExact == InitExact /\ [][AlignTranscript]_vars

(***************************************************************************)
(* Concurrent calls of EnhancedAligner.align on the same input objects     *)
(* (SpecCalls).                                                            *)
(*                                                                         *)
(* Dicts are kept by identity: heap[id] is the present content of dict id, *)
(* a list of dicts is the sequence of their ids.  The request's            *)
(* diarization dicts are heap[1..n] and its ASR records follow them; a     *)
(* statement that builds a dict appends to heap, one that assigns to a     *)
(* key of a dict changes heap at its id.  Each call has its own locals in  *)
(* proc; the module has no other state.  A step of a call is one of the    *)
(* calls align makes, so the steps of the calls interleave in any order.   *)
(***************************************************************************)
MaxTC == 2
MaxDiarC == 2

\* the two calls the route makes with one request's ASR payload and
\* diarization list
Calls == {"align_transcript_with_speakers", "build_conversation"}

\* the ids of the request's diarization dicts and of its ASR records
DiarIds == [i \in 1..Len(diarization) |-> i]
AsrIds ==
    [j \in 1..Len(asr_result.segments.v) |-> Len(diarization) + j]

\* heap with dict id holding obj: a new dict when id is the next free id
Store(h, id, obj) ==
    IF id = Len(h) + 1 THEN Append(h, obj) ELSE [h EXCEPT ![id] = obj]

\* sorted(xs, key=lambda x: x["start"]) of a list of dicts given by ids
SortIds(h, ids) ==
    LET refs == SortedByStart([i \in 1..Len(ids) |->
                                [id |-> ids[i], start |-> h[ids[i]].start]])
    IN  [i \in 1..Len(refs) |-> refs[i].id]

\* mutant: the text is stored in the diarization dict d itself, which is
\* appended
RawSlot_Reuse(d_id, fresh) == d_id

\* aligned.append({...}): the dict appended is a new one
RawSlot(d_id, fresh) == fresh

\* `for d in diarization` of _align_words_to_diarization, on ids
RECURSIVE MapLoop(_, _, _, _)
MapLoop(h, word_segments, ds, aligned) ==
    IF ds = <<>> THEN [heap |-> h, ids |-> aligned]
    ELSE LET d == h[Head(ds)]
             ws == SelectSeq(word_segments,
                             LAMBDA w : WordInWindow(w, d.start, d.end))
             slot == RawSlot(Head(ds), Len(h) + 1)
         IN  IF ws = <<>> THEN MapLoop(h, word_segments, Tail(ds), aligned)
             ELSE MapLoop(Store(h, slot, RawSegment(d, ws)), word_segments,
                          Tail(ds), Append(aligned, slot))

\* _align_words_to_diarization(word_segments, diarization), on ids
AlignWordsHeap(h, word_segments, diar_ids) ==
    IF word_segments = <<>> \/ diar_ids = <<>> THEN [heap |-> h, ids |-> <<>>]
    ELSE MapLoop(h, SortedByStart(word_segments), SortIds(h, diar_ids), <<>>)

\* `for seg in segs[1:]` of _merge_blocks, on ids: last["end"] and
\* last["text"] are assigned in the dict last
RECURSIVE MergeHeapLoop(_, _, _)
MergeHeapLoop(h, kept, rest) ==
    IF rest = <<>> THEN [heap |-> h, ids |-> kept]
    ELSE LET seg == Head(rest)
             last == kept[Len(kept)]
         IN  IF Mergeable(h[last], h[seg])
             THEN MergeHeapLoop([h EXCEPT ![last] = Absorb(h[last], h[seg])],
                                kept, Tail(rest))
             ELSE MergeHeapLoop(h, Append(kept, seg), Tail(rest))

\* _merge_blocks(segments), on ids
MergeHeap(h, ids) ==
    IF ids = <<>> THEN [heap |-> h, ids |-> <<>>]
    ELSE LET segs == SortIds(h, ids)
         IN  MergeHeapLoop(h, <<segs[1]>>, Tail(segs))

\* `for seg in merged` of align: confidence, gender and gender_confidence
\* are assigned in the dict seg
ConfidenceHeap(h, ids, asr_segs) ==
    [k \in 1..Len(h) |->
        IF \E i \in 1..Len(ids) : ids[i] = k
        THEN WithConfidence(h[k], asr_segs) ELSE h[k]]

NewCall ==
    [pc |-> "call", asr |-> <<>>, words |-> <<>>, raw |-> <<>>,
     merged |-> <<>>, result |-> <<>>, conv |-> <<>>]


\* the request's ASR segment: two words over the whole time grid
CallAsrRecord == [start |-> 0, end |-> MaxTC * Step, text |-> TextOfWords(2)]

InitCalls ==
    /\ pc = "calls"
    /\ asr_result = Payload(<<CallAsrRecord>>)
    /\ diarization \in {xs \in SeqUpTo(ValidDiarIntervals(2, MaxTC), MaxDiarC) :
                            CanonicalLabels(xs)}
    /\ asr = <<>>
    /\ words = <<>>
    /\ raw = <<>>
    /\ merged = <<>>
    /\ remerged = <<>>
    /\ speaker_segments = <<>>
    /\ conversation = <<>>
    /\ outcome = NotCalled
    /\ speaker_stats = <<>>
    /\ conversation_stats = <<>>
    /\ enriched = <<>>
    /\ _model = NoModel
    /\ whisper_loads = <<>>
    /\ asr_calls = <<>>
    /\ segments_in = <<>>
    /\ raw_segments = <<>>
    /\ smoothed = <<>>
    /\ heap = diarization \o asr_result.segments.v
    /\ proc = [p \in Calls |-> NewCall]

requestVars ==
    <<pc, asr_result, diarization, asr, words, raw, merged, remerged,
      speaker_segments, conversation, resultVars, serviceVars>>

\* diar = diarization_result or []; asr = cls._extract_asr_segments(asr_result);
\* if not asr or not diar: return {"speaker_segments": []}
CallExtract(p) ==
    /\ proc[p].pc = "call"
    /\ LET segs == [j \in 1..Len(AsrIds) |-> heap[AsrIds[j]]]
           asr_segs == ExtractAsrSegments(Payload(segs))
       IN  proc' = [proc EXCEPT ![p] =
                IF asr_segs = <<>> \/ DiarIds = <<>>
                THEN [@ EXCEPT !.pc = "done"]
                ELSE [@ EXCEPT !.pc = "extracted", !.asr = asr_segs]]
    /\ UNCHANGED <<heap, requestVars>>

\* words = cls._to_word_segments(asr)
CallSlice(p) ==
    /\ proc[p].pc = "extracted"
    /\ proc' = [proc EXCEPT ![p] =
            [@ EXCEPT !.pc = "sliced", !.words = ToWordSegments(proc[p].asr)]]
    /\ UNCHANGED <<heap, requestVars>>

\* raw = cls._align_words_to_diarization(words, diar)
CallMap(p) ==
    /\ proc[p].pc = "sliced"
    /\ \E res \in {AlignWordsHeap(heap, proc[p].words, DiarIds)} :
        /\ heap' = res.heap
        /\ proc' = [proc EXCEPT ![p] = [@ EXCEPT !.pc = "mapped", !.raw = res.ids]]
    /\ UNCHANGED requestVars

\* merged = cls._merge_blocks(raw)
CallMerge(p) ==
    /\ proc[p].pc = "mapped"
    /\ \E res \in {MergeHeap(heap, proc[p].raw)} :
        /\ heap' = res.heap
        /\ proc' = [proc EXCEPT ![p] =
                [@ EXCEPT !.pc = "merged", !.merged = res.ids]]
    /\ UNCHANGED requestVars

\* the loop `for seg in merged`; return {"speaker_segments": merged}
CallReturn(p) ==
    /\ proc[p].pc = "merged"
    /\ \E h \in {ConfidenceHeap(heap, proc[p].merged, proc[p].asr)} :
        /\ heap' = h
        /\ proc' = [proc EXCEPT ![p] =
                [@ EXCEPT !.pc = "done",
                          !.result = [i \in 1..Len(proc[p].merged) |->
                                        h[proc[p].merged[i]]]]]
    /\ UNCHANGED requestVars

\* the rest of build_conversation after its call of align: the turns are
\* new dicts, and only they are assigned to
CallTurns(p) ==
    /\ p = "build_conversation"
    /\ proc[p].pc = "done"
    /\ \E conv \in {ConversationOf(proc[p].result)} :
        /\ heap' = heap \o conv
        /\ proc' = [proc EXCEPT ![p] =
                [@ EXCEPT !.pc = "turns",
                          !.conv = [i \in 1..Len(conv) |-> Len(heap) + i]]]
    /\ UNCHANGED requestVars

NextCalls ==
    \E p \in Calls :
        \/ CallExtract(p)
        \/ CallSlice(p)
        \/ CallMap(p)
        \/ CallMerge(p)
        \/ CallReturn(p)
        \/ CallTurns(p)

SpecCalls == InitCalls /\ [][NextCalls]_vars

(***************************************************************************)
(* Claims about _to_word_segments (SpecWords)                              *)
(***************************************************************************)
\* N of a segment: the number of whitespace-delimited words of its text
WordCount(seg) == Len(Split(seg.text))

RECURSIVE WordOffset(_)
\* how many word intervals the segments before asr[k] contribute
WordOffset(k) == IF k <= 1 THEN 0 ELSE WordOffset(k - 1) + WordCount(asr[k - 1])

\* the word intervals emitted for asr[k]
SegmentWords(k) ==
    SubSeq(words, WordOffset(k) + 1, WordOffset(k) + WordCount(asr[k]))

\* C1: for every normalised ASR segment with start <= end (zero-duration
\* included) and N >= 1 words, _to_word_segments emits exactly N word
\* intervals in word order, the first starting at segment.start, the last
\* ending at segment.end, each ending where the next starts, each with
\* start <= end.
C1_WordsPartitionSegment ==
    pc = "sliced" =>
        /\ Len(words) = WordOffset(Len(asr) + 1)
        /\ \A k \in 1..Len(asr) :
            LET seg == asr[k]
                n == WordCount(seg)
                ws == SegmentWords(k)
            IN  (seg.start <= seg.end /\ n >= 1) =>
                    /\ Len(ws) = n
                    /\ \A i \in 1..n : ws[i].word = Split(seg.text)[i]
                    /\ ws[1].start = seg.start * WScale
                    /\ ws[n].end = seg.end * WScale
                    /\ \A i \in 1..(n - 1) : ws[i].end = ws[i + 1].start
                    /\ \A i \in 1..n : ws[i].start <= ws[i].end

\* C2: for every ASR segment with end <= start (zero-duration or inverted)
\* and at least one word, no emitted word interval has end < start, for
\* every word count N >= 1 (and the slice width is a quotient by N >= 1).
C2_NoNegativeWordInterval ==
    pc = "sliced" =>
        /\ Len(words) = WordOffset(Len(asr) + 1)
        /\ \A k \in 1..Len(asr) :
            LET seg == asr[k]
                n == WordCount(seg)
                ws == SegmentWords(k)
            IN  (seg.end <= seg.start /\ n >= 1) =>
                    \A i \in 1..n : ws[i].start <= ws[i].end

(***************************************************************************)
(* Claims about _merge_blocks (SpecMerge)                                  *)
(***************************************************************************)
\* the raw list in start order (ties in list order, as sorted() leaves them)
RawInStartOrder == SortedByStart(raw)

\* the non-blank characters of a text
LettersOf(text) == {text[i] : i \in 1..Len(text)} \ {SP}

\* seg's words are part of block b's text (the texts of the raw segments of
\* one input list have pairwise different letters)
TextInBlock(seg, b) == LettersOf(seg.text) \subseteq LettersOf(b.text)

\* two raw segments, consecutive in start order, same speaker, gap exactly 0
ZeroGapPair(a, b) == a.speaker = b.speaker /\ b.start = a.end

\* C5: two same-speaker raw segments consecutive in start order with gap
\* exactly 0 end up in the same output block; given exactly those two, the
\* output is one segment [min(start), max(end)] whose text is the first
\* text, one blank, the second text.
C5_ZeroGapMerges ==
    pc = "merged" =>
        LET segs == RawInStartOrder
        IN  /\ \A i \in 1..(Len(segs) - 1) :
                ZeroGapPair(segs[i], segs[i + 1]) =>
                    \E j \in 1..Len(merged) :
                        /\ TextInBlock(segs[i], merged[j])
                        /\ TextInBlock(segs[i + 1], merged[j])
            /\ (Len(segs) = 2 /\ ZeroGapPair(segs[1], segs[2])) =>
                    merged = <<[start |-> Min(segs[1].start, segs[2].start),
                                end |-> Max(segs[1].end, segs[2].end),
                                speaker |-> segs[1].speaker,
                                text |-> segs[1].text \o <<SP>> \o segs[2].text]>>

\* C5 witness: a two-segment list, given in reverse start order, whose
\* segments touch (gap 0) and came out as one block
C5_Witness ==
    /\ pc = "merged"
    /\ Len(raw) = 2
    /\ raw[2].start < raw[1].start
    /\ ZeroGapPair(raw[2], raw[1])
    /\ Len(merged) = 1

\* C6: a raw segment is never merged into a block of another speaker: a
\* block's text holds only words of raw segments with the block's speaker,
\* and its start and end are those of raw segments with the block's speaker.
C6_NeverMergesAcrossSpeakers ==
    pc = "merged" =>
        \A j \in 1..Len(merged) :
            LET b == merged[j]
                own == {i \in 1..Len(raw) : raw[i].speaker = b.speaker}
            IN  /\ \A i \in 1..Len(raw) :
                    (LettersOf(raw[i].text) \cap LettersOf(b.text) /= {}) => i \in own
                /\ \E i \in own : raw[i].start = b.start
                /\ \E i \in own : raw[i].end = b.end

\* C6 witness: something was merged although two segments of different
\* speakers, adjacent in start order, touch (gap 0) and stay two blocks
C6_Witness ==
    /\ pc = "merged"
    /\ Len(merged) < Len(raw)
    /\ \E j \in 1..(Len(merged) - 1) :
        /\ merged[j].speaker /= merged[j + 1].speaker
        /\ merged[j + 1].start = merged[j].end

\* the merge rule as the specification words it: same speaker_label and the
\* gap between previous.end and candidate.start within [0, max_gap]
RulePair(prev, cand) ==
    /\ prev.speaker = cand.speaker
    /\ 0 <= cand.start - prev.end
    /\ cand.start - prev.end <= max_gap

\* raw is in start order and has no mergeable adjacent pair
RawAlreadyMerged ==
    /\ \A i \in 1..(Len(raw) - 1) : raw[i].start <= raw[i + 1].start
    /\ \A i \in 1..(Len(raw) - 1) : ~RulePair(raw[i], raw[i + 1])

\* C7: _merge_blocks(_merge_blocks(S)) = _merge_blocks(S) entry by entry,
\* and a sequence in start order with no mergeable adjacent pair comes back
\* unchanged.
C7_MergeIdempotent ==
    /\ pc = "remerged" => remerged = merged
    /\ (pc = "merged" /\ RawAlreadyMerged) => merged = raw

\* C7 witness: the first pass merged something and left several blocks,
\* and the second pass has run
C7_Witness ==
    /\ pc = "remerged"
    /\ Len(merged) < Len(raw)
    /\ Len(merged) >= 2

(***************************************************************************)
(* Claims about EnhancedAligner.align (SpecAlign)                          *)
(***************************************************************************)
\* C3 as claimed: the returned speaker segments are strictly ordered by
\* start (each start < the next start), for every diarization input.
C3_StrictlyOrderedByStart ==
    pc = "aligned" =>
        \A i \in 1..(Len(speaker_segments) - 1) :
            speaker_segments[i].start < speaker_segments[i + 1].start

\* C3 amended: the returned speaker segments are in non-decreasing start
\* order (each start <= the next start); two of them can share a start.
C3_OrderedByStart ==
    pc = "aligned" =>
        \A i \in 1..(Len(speaker_segments) - 1) :
            speaker_segments[i].start <= speaker_segments[i + 1].start

\* C3 witness: two diarization intervals of different speakers share a start
\* time, and both come back, as two segments with the same start
C3_Witness ==
    /\ pc = "aligned"
    /\ Len(diarization) = 2
    /\ diarization[1].speaker /= diarization[2].speaker
    /\ diarization[1].start = diarization[2].start
    /\ Len(speaker_segments) = 2
    /\ speaker_segments[1].start = speaker_segments[2].start

\* C4 as claimed: no two adjacent entries returned by _merge_blocks (and by
\* align) have the same speaker and a gap next.start - previous.end <= 0.75 s,
\* negative gaps included.
C4_NoAdjacentSameSpeakerWithinGap ==
    pc = "aligned" =>
        /\ \A i \in 1..(Len(merged) - 1) :
            ~(/\ merged[i].speaker = merged[i + 1].speaker
              /\ merged[i + 1].start - merged[i].end <= max_gap)
        /\ \A i \in 1..(Len(speaker_segments) - 1) :
            ~(/\ speaker_segments[i].speaker = speaker_segments[i + 1].speaker
              /\ speaker_segments[i + 1].start - speaker_segments[i].end <= max_gap)

\* C4 amended: no two adjacent entries returned by _merge_blocks (and by
\* align) have the same speaker and a gap within [0, 0.75 s]; same-speaker
\* entries that overlap in time (negative gap) stay adjacent and unmerged.
C4_NoAdjacentMergeablePair ==
    pc = "aligned" =>
        /\ \A i \in 1..(Len(merged) - 1) : ~RulePair(merged[i], merged[i + 1])
        /\ \A i \in 1..(Len(speaker_segments) - 1) :
            ~RulePair(speaker_segments[i], speaker_segments[i + 1])

\* C4 witness: two returned segments of one speaker overlap in time
C4_Witness ==
    /\ pc = "aligned"
    /\ \E i \in 1..(Len(speaker_segments) - 1) :
        /\ speaker_segments[i].speaker = speaker_segments[i + 1].speaker
        /\ speaker_segments[i + 1].start < speaker_segments[i].end

\* every interval of the list has start <= end
AllValid(xs) == \A i \in 1..Len(xs) : xs[i].start <= xs[i].end

\* C8: when all ASR segments and all diarization intervals have start <= end,
\* every speaker segment of align, raw or merged, has start <= end.
C8_SegmentsStartBeforeEnd ==
    (pc = "aligned" /\ AllValid(asr) /\ AllValid(diarization)) =>
        /\ AllValid(raw)
        /\ AllValid(merged)
        /\ AllValid(speaker_segments)

\* C8 witness: valid inputs, two raw segments merged into one returned
\* segment of positive duration
C8_Witness ==
    /\ pc = "aligned"
    /\ asr /= <<>>
    /\ AllValid(asr)
    /\ AllValid(diarization)
    /\ Len(raw) = 2
    /\ Len(speaker_segments) = 1
    /\ speaker_segments[1].start < speaker_segments[1].end

\* C9: every speaker segment returned by align has 0 <= confidence <= 1,
\* whether clamped from sigmoid(avg_logprob) * (1 - no_speech_prob), for
\* metadata inside or outside the usual range, or the 0.5 default.
C9_ConfidenceInUnitInterval ==
    pc = "aligned" =>
        \A i \in 1..Len(speaker_segments) :
            /\ 0 <= speaker_segments[i].confidence
            /\ speaker_segments[i].confidence <= ConfScale

\* C9 witness: a returned segment overlaps the ASR segment, whose
\* no_speech_prob is negative, and carries the clamped confidence 1
C9_Witness ==
    /\ pc = "aligned"
    /\ Len(asr) = 1
    /\ asr[1].no_speech_prob < 0
    /\ \E i \in 1..Len(speaker_segments) :
        /\ BestDiarForAsr(speaker_segments[i], asr) = 1
        /\ speaker_segments[i].confidence = ConfScale

(***************************************************************************)
(* Claims about build_conversation (SpecConv)                              *)
(***************************************************************************)
\* the raw speaker labels of the aligned segments
AlignedSpeakers ==
    {speaker_segments[i].speaker : i \in 1..Len(speaker_segments)}

RECURSIVE DurationSum(_, _)
\* the sum of end - start over the aligned segments i..Len of speaker spk
DurationSum(spk, i) ==
    IF i > Len(speaker_segments) THEN 0
    ELSE DurationSum(spk, i + 1)
            + (IF speaker_segments[i].speaker = spk
               THEN speaker_segments[i].end - speaker_segments[i].start
               ELSE 0)

TotalSpeakingTime(spk) == DurationSum(spk, 1)

\* Roles follow the ranking by total speaking time, descending: a turn has
\* the first role only if no speaker has more time than its speaker, the
\* second role only if at most one has more and at least one has as much,
\* and otherwise its raw label, at least two others having as much; no two
\* speakers share the first or the second role.  With pairwise different
\* totals this fixes the role of every turn: top, second, raw label; a
\* single speaker has the first role.
RolesRankedByTime(first_role, second_role) ==
    pc = "conversation" =>
        /\ \A t \in 1..Len(conversation) :
            LET turn == conversation[t]
                s == turn.speaker_raw
                above == {u \in AlignedSpeakers \ {s} :
                            TotalSpeakingTime(u) > TotalSpeakingTime(s)}
                notBelow == {u \in AlignedSpeakers \ {s} :
                            TotalSpeakingTime(u) >= TotalSpeakingTime(s)}
            IN  /\ s \in AlignedSpeakers
                /\ turn.speaker = first_role => above = {}
                /\ turn.speaker = second_role =>
                        Cardinality(above) <= 1 /\ Cardinality(notBelow) >= 1
                /\ turn.speaker \notin {first_role, second_role} =>
                        turn.speaker = s /\ Cardinality(notBelow) >= 2
        /\ \A t, u \in 1..Len(conversation) :
            (/\ conversation[t].speaker = conversation[u].speaker
             /\ conversation[t].speaker \in {first_role, second_role})
                => conversation[t].speaker_raw = conversation[u].speaker_raw
        /\ \A s \in AlignedSpeakers :
            \E t \in 1..Len(conversation) : conversation[t].speaker_raw = s

\* C10 as claimed: the top speaker's turns have role PRIMARY, the second
\* speaker's SECONDARY, any further speaker's its raw label; a single
\* speaker's turns have role PRIMARY.
C10_RolesPrimarySecondary == RolesRankedByTime("PRIMARY", "SECONDARY")

\* C10 amended: the same ranking, the two roles being the strings CUSTOMER
\* (most speaking time, or the only speaker) and AGENT (second most).
C10_RolesCustomerAgent == RolesRankedByTime("CUSTOMER", "AGENT")

\* C10 witness: three speakers with pairwise different total speaking
\* times, whose turns carry CUSTOMER, AGENT and a raw label, the top speaker
\* not being the first to speak
C10_Witness ==
    /\ pc = "conversation"
    /\ Cardinality(AlignedSpeakers) = 3
    /\ \A s, u \in AlignedSpeakers :
        s /= u => TotalSpeakingTime(s) /= TotalSpeakingTime(u)
    /\ {conversation[t].speaker : t \in 1..Len(conversation)}
            \cap {"CUSTOMER", "AGENT"} = {"CUSTOMER", "AGENT"}
    /\ \E t \in 1..Len(conversation) :
        conversation[t].speaker = conversation[t].speaker_raw
    /\ conversation[1].speaker /= "CUSTOMER"

\* the k-th smallest element of a set of integers
KthSmallest(S, k) ==
    CHOOSE x \in S : Cardinality({y \in S : y < x}) = k - 1

RECURSIVE SegmentTexts(_, _)
\* the texts of the aligned segments lo..hi joined by single spaces
SegmentTexts(lo, hi) ==
    IF lo = hi THEN speaker_segments[lo].text
    ELSE SegmentTexts(lo, hi - 1) \o <<SP>> \o speaker_segments[hi].text

\* turn t of the conversation is built from the aligned segments lo..hi
TurnCovers(t, lo, hi) ==
    LET turn == conversation[t]
    IN  /\ lo <= hi
        /\ \A i \in lo..hi : speaker_segments[i].speaker = turn.speaker_raw
        /\ turn.start = speaker_segments[lo].start
        /\ turn.end = speaker_segments[hi].end
        /\ turn.text = SegmentTexts(lo, hi)

\* C11: the turns are the aligned segments, in start order, cut into
\* consecutive runs, and every segment of a turn's run has the turn's
\* speaker_raw as speaker: no turn holds segments of two raw speakers,
\* whatever the gap between them.
C11_TurnsKeyedOnRawSpeaker ==
    pc = "conversation" =>
        LET n == Len(speaker_segments)
            k == Len(conversation)
        IN  IF n = 0 THEN k = 0
            ELSE /\ k \in 1..n
                 /\ \E cuts \in SUBSET (1..(n - 1)) :
                    /\ Cardinality(cuts) = k - 1
                    /\ \A t \in 1..k :
                        TurnCovers(t, KthSmallest(cuts \cup {0}, t) + 1,
                                      KthSmallest(cuts \cup {n}, t))

\* C11 witness: a turn built from two segments of one speaker, next to a
\* turn of another speaker that starts within MAX_GAP of its end
C11_Witness ==
    /\ pc = "conversation"
    /\ Len(conversation) < Len(speaker_segments)
    /\ \E t \in 1..(Len(conversation) - 1) :
        /\ conversation[t].speaker_raw /= conversation[t + 1].speaker_raw
        /\ conversation[t + 1].start - conversation[t].end <= MAX_GAP

(***************************************************************************)
(* Claims about empty and degenerate inputs (SpecLoose)                    *)
(***************************************************************************)
\* _extract_asr_segments returns the empty list
NormalizedAsrEmpty ==
    /\ ~ExtractRaises(asr_result)
    /\ ExtractAsrSegments(TypedAsr(asr_result)) = <<>>

\* the diarization list is empty or None
DiarizationEmpty == DiarList(diarization) = <<>>

\* the calls made so far
Called == {f \in DOMAIN outcome : outcome[f] /= "pending"}

\* C12: when the normalized ASR segment sequence is empty, or the
\* diarization list is empty or None, align returns no speaker segments and
\* build_conversation no turns, compute_speaker_stats and
\* compute_conversation_stats return the empty dict, and none of them raises.
C12_EmptyInputsGiveEmptyResults ==
    (NormalizedAsrEmpty \/ DiarizationEmpty) =>
        /\ \A f \in Called : outcome[f] = "returned"
        /\ speaker_segments = <<>>
        /\ conversation = <<>>
        /\ speaker_stats = <<>>
        /\ conversation_stats = <<>>

\* C13: on every ASR input and every diarization list, align,
\* build_conversation, compute_speaker_stats and compute_conversation_stats
\* return; none of them raises.
C13_NeverRaises ==
    \A f \in Called : outcome[f] = "returned"

(***************************************************************************)
(* Claims about the one-interval-per-segment scenario (SpecScenario)       *)
(***************************************************************************)
\* the ASR segments of the request
RequestSegments == asr_result.segments.v

\* the ASR segments have positive durations, non-empty texts and pairwise
\* disjoint spans
DisjointSegments ==
    /\ \A i \in 1..Len(RequestSegments) :
        /\ RequestSegments[i].start < RequestSegments[i].end
        /\ Split(RequestSegments[i].text) /= <<>>
    /\ \A i, j \in 1..Len(RequestSegments) :
        i /= j => \/ RequestSegments[i].end <= RequestSegments[j].start
                  \/ RequestSegments[j].end <= RequestSegments[i].start

\* the diarization intervals are, one to one, the spans of the ASR segments
IntervalsAreSpans ==
    /\ Len(diarization) = Len(RequestSegments)
    /\ \A i \in 1..Len(RequestSegments) :
        Cardinality({k \in 1..Len(diarization) :
            /\ diarization[k].start = RequestSegments[i].start
            /\ diarization[k].end = RequestSegments[i].end}) = 1

\* the diarization interval with the i-th smallest start
IntervalByStart(i) ==
    LET start == KthSmallest({diarization[k].start : k \in 1..Len(diarization)}, i)
    IN  CHOOSE d \in {diarization[k] : k \in 1..Len(diarization)} : d.start = start

\* the ASR segment over the span of interval d
SegmentOver(d) ==
    CHOOSE a \in {RequestSegments[k] : k \in 1..Len(RequestSegments)} :
        a.start = d.start /\ a.end = d.end

SpeakersAlternate ==
    \A i \in 1..(Len(diarization) - 1) :
        IntervalByStart(i).speaker /= IntervalByStart(i + 1).speaker

\* t is x rounded to a whole millisecond
RoundedTo(t, x) == t % 1000 = 0 /\ t - x \in -500..500

\* one speaker segment per interval, in start order, with the interval's
\* speaker, the words of its ASR segment joined by single blanks, and the
\* interval's start and end, as given (exact) or rounded to the millisecond
OneSegmentPerInterval(exact) ==
    (pc = "aligned" /\ DisjointSegments /\ IntervalsAreSpans /\ SpeakersAlternate) =>
        /\ Len(speaker_segments) = Len(diarization)
        /\ \A i \in 1..Len(speaker_segments) :
            LET seg == speaker_segments[i]
                d == IntervalByStart(i)
            IN  /\ seg.speaker = d.speaker
                /\ seg.text = Join(Split(SegmentOver(d).text))
                /\ IF exact THEN seg.start = d.start /\ seg.end = d.end
                   ELSE RoundedTo(seg.start, d.start) /\ RoundedTo(seg.end, d.end)

RunCount(text) ==
    Cardinality({i \in 1..Len(text) :
                    text[i] /= SP /\ (i = 1 \/ text[i - 1] = SP)})

RECURSIVE RunCountSum(_)
\* the number of words of the speaker segments i..Len
RunCountSum(i) ==
    IF i > Len(speaker_segments) THEN 0
    ELSE RunCount(speaker_segments[i].text) + RunCountSum(i + 1)

\* C15: for non-empty speaker segments and a non-empty diarization list,
\* conversation_start is the start of the first diarization interval of the
\* list as given, conversation_end the end of the last one, total_duration
\* their difference, total_segments the number of speaker segments,
\* total_words their whitespace-delimited words and speaker_count the number
\* of distinct speaker labels among them.
C15_ConversationStats ==
    (pc = "conversation_stats" /\ speaker_segments /= <<>> /\ diarization /= <<>>) =>
        /\ Len(conversation_stats) = 1
        /\ LET st == conversation_stats[1]
           IN  /\ st.conversation_start = diarization[1].start
               /\ st.conversation_end = diarization[Len(diarization)].end
               /\ st.total_duration = st.conversation_end - st.conversation_start
               /\ st.total_segments = Len(speaker_segments)
               /\ st.total_words = RunCountSum(1)
               /\ st.speaker_count = Cardinality(AlignedSpeakers)

\* C15 witness: statistics of two speakers' segments over a diarization list
\* given out of start order, whose first start and last end are not the
\* bounds of the speaker segments
C15_Witness ==
    /\ pc = "conversation_stats"
    /\ Len(conversation_stats) = 1
    /\ conversation_stats[1].speaker_count = 2
    /\ conversation_stats[1].total_words > 2
    /\ Len(diarization) = 2
    /\ diarization[1].start > diarization[2].start
    /\ conversation_stats[1].conversation_start /= speaker_segments[1].start

(***************************************************************************)
(* Claims about the enrichment stages (SpecEnrich)                         *)
(***************************************************************************)
\* the stages of the chain that have run
StagesRun == pc \in {"sentiment", "keywords", "gender", "emotion"}

\* C16: after any prefix of the chain sentiment, keywords, gender, emotion,
\* the list has the length and order of the speaker segments align returned
\* and every entry has the start, end, speaker and text of the entry it was
\* made from.
C16_EnrichmentKeepsSegments ==
    StagesRun =>
        /\ Len(enriched) = Len(speaker_segments)
        /\ \A i \in 1..Len(enriched) :
            \A key \in {"start", "end", "speaker", "text"} :
                /\ key \in DOMAIN enriched[i]
                /\ enriched[i][key] = speaker_segments[i][key]

\* C16 witness: the whole chain has run on two segments of different
\* speakers and texts, and each stage has set its keys
C16_Witness ==
    /\ pc = "emotion"
    /\ Len(enriched) = 2
    /\ speaker_segments[1].speaker /= speaker_segments[2].speaker
    /\ speaker_segments[1].text /= speaker_segments[2].text
    /\ \A i \in 1..2 :
        {"sentiment", "keywords", "gender", "emotion"} \subseteq DOMAIN enriched[i]
    /\ enriched[1]["gender"] = "male"
    /\ enriched[2]["sentiment"] = "positive"

(***************************************************************************)
(* Claims about concurrent calls of align (SpecCalls)                      *)
(***************************************************************************)
\* the request's diarization dicts and ASR records are as they were given
InputsIntact ==
    /\ \A i \in 1..Len(DiarIds) : heap[DiarIds[i]] = diarization[i]
    /\ \A j \in 1..Len(AsrIds) : heap[AsrIds[j]] = asr_result.segments.v[j]

\* the call's alignment has returned its speaker segments
Aligned(p) == proc[p].pc \in {"done", "turns"}

\* C17: whatever the interleaving of the calls of
\* align_transcript_with_speakers and build_conversation on one request's
\* inputs, no call changes the input ASR records or diarization dicts, no
\* call changes a dict of another call's result, the alignments that have
\* returned have returned equal speaker segments, and the conversations
\* built are those of these speaker segments.
C17_CallsIndependent ==
    pc = "calls" =>
        /\ InputsIntact
        /\ \A p, q \in Calls :
            (Aligned(p) /\ Aligned(q)) => proc[p].result = proc[q].result
        /\ \A p \in Calls :
            Aligned(p) =>
                /\ proc[p].result = Align(asr_result, diarization)
                /\ proc[p].result =
                    [i \in 1..Len(proc[p].merged) |-> heap[proc[p].merged[i]]]
        /\ \A p \in Calls :
            proc[p].pc = "turns" =>
                [i \in 1..Len(proc[p].conv) |-> heap[proc[p].conv[i]]]
                    = BuildConversationOf(asr_result, diarization)

\* C17 witness: both calls have returned, each after merging two raw
\* segments into one block in place, build_conversation having built its
\* raw segments before align_transcript_with_speakers built its own
C17_Witness ==
    /\ pc = "calls"
    /\ proc["align_transcript_with_speakers"].pc = "done"
    /\ proc["build_conversation"].pc = "turns"
    /\ \A p \in Calls :
        /\ Len(proc[p].raw) = 2
        /\ Len(proc[p].merged) = 1
    /\ proc["build_conversation"].raw[1]
            < proc["align_transcript_with_speakers"].raw[1]

(***************************************************************************)
(* Claims about the confidence of a block (SpecBest)                       *)
(***************************************************************************)
\* the time the i-th normalised ASR segment shares with the block
SharedTime(block, i) ==
    Max(0, Min(block.end, asr[i].end) - Max(block.start, asr[i].start))

\* the ASR segments sharing the most time with the block, that time being
\* positive
Closest(block) ==
    {i \in 1..Len(asr) :
        /\ SharedTime(block, i) > 0
        /\ \A j \in 1..Len(asr) : SharedTime(block, j) <= SharedTime(block, i)}

FirstOf(S) == CHOOSE i \in S : \A j \in S : i <= j

\* C18: the confidence of each merged block is that of the ASR segment with
\* the largest positive overlap with the block's [start, end], the first
\* such segment in normalised ASR order when several tie; it is the default
\* 0.5 exactly when no ASR segment has a positive overlap with the block.
C18_ConfidenceOfLargestOverlap ==
    pc = "aligned" =>
        \A k \in 1..Len(speaker_segments) :
            LET block == speaker_segments[k]
            IN  /\ Closest(block) /= {} =>
                    block.confidence =
                        ConfidenceFromWhisper(asr[FirstOf(Closest(block))])
                /\ block.confidence = DEFAULT_CONFIDENCE
                        <=> Closest(block) = {}

\* C18 witness: a block shares the same, largest, positive time with two ASR
\* segments of different confidence
C18_Witness ==
    /\ pc = "aligned"
    /\ \E k \in 1..Len(speaker_segments) :
        \E i, j \in Closest(speaker_segments[k]) :
            /\ i < j
            /\ ConfidenceFromWhisper(asr[i]) /= ConfidenceFromWhisper(asr[j])

\* a block that shares no positive time with any ASR segment
C18_DefaultUsed ==
    /\ pc = "aligned"
    /\ \E k \in 1..Len(speaker_segments) : Closest(speaker_segments[k]) = {}

\* a block whose closest ASR segment is not the first of those it overlaps
C18_LaterIsCloser ==
    /\ pc = "aligned"
    /\ \E k \in 1..Len(speaker_segments) :
        \E i \in 1..Len(asr) :
            /\ SharedTime(speaker_segments[k], i) > 0
            /\ Closest(speaker_segments[k]) /= {}
            /\ i < FirstOf(Closest(speaker_segments[k]))

(***************************************************************************)
(* Claims about _align_words_to_diarization (SpecMap)                      *)
(***************************************************************************)
\* word i and diarization interval j overlap: w.end > d.start and
\* w.start < d.end (word times are in 1/WScale microseconds)
WordMeets(i, j) ==
    /\ words[i].end > diarization[j].start * WScale
    /\ words[i].start < diarization[j].end * WScale

WordsMeeting(j) == {i \in 1..Len(words) : WordMeets(i, j)}

\* the intervals that overlap at least one word
IntervalsWithWords == {j \in 1..Len(diarization) : WordsMeeting(j) /= {}}

\* x of list xs is the k-th of the members S of xs in start order (members
\* of equal start in list order)
IsKthByStart(xs, S, x, k) ==
    Cardinality({y \in S : \/ xs[y].start < xs[x].start
                            \/ (xs[y].start = xs[x].start /\ y < x)}) = k - 1

KthByStart(xs, S, k) == CHOOSE x \in S : IsKthByStart(xs, S, x, k)

\* the words overlapping interval j, in start order, joined by single spaces
RECURSIVE WordsJoined(_, _)
WordsJoined(j, k) ==
    LET w == words[KthByStart(words, WordsMeeting(j), k)].word
    IN  IF k = 1 THEN w ELSE WordsJoined(j, k - 1) \o <<SP>> \o w

\* the raw segments are those of the intervals that overlap a word, in
\* order of interval start, each with the interval's speaker and the
\* overlapping words, and with the interval's start and end (exact) or
\* these rounded to the millisecond
RawPerInterval(exact) ==
    /\ Len(raw) = Cardinality(IntervalsWithWords)
    /\ \A k \in 1..Len(raw) :
        LET j == KthByStart(diarization, IntervalsWithWords, k)
            d == diarization[j]
        IN  /\ raw[k].speaker = d.speaker
            /\ raw[k].text = WordsJoined(j, Cardinality(WordsMeeting(j)))
            /\ IF exact
               THEN raw[k].start = d.start /\ raw[k].end = d.end
               ELSE RoundedTo(raw[k].start, d.start)
                        /\ RoundedTo(raw[k].end, d.end)

\* C19 (as stated): _align_words_to_diarization emits, in order of
\* diarization start, exactly one raw segment for each diarization interval
\* that overlaps at least one word and none for the others; the segment
\* carries the interval's start, end and speaker, and its text is the
\* overlapping words in start order joined by single spaces.
C19_RawPerIntervalExact == pc = "mapped" => RawPerInterval(TRUE)

\* C19 (amended): the same, the segment carrying the interval's start and
\* end each rounded to three decimals.
C19_RawPerIntervalRounded == pc = "mapped" => RawPerInterval(FALSE)

\* C19 witness: two intervals given out of start order each overlap words,
\* one of them two words given out of start order, and a third thing, an
\* interval or a word, takes no part
C19_Witness ==
    /\ pc = "mapped"
    /\ Len(raw) = 2
    /\ Len(diarization) = 2
    /\ diarization[2].start < diarization[1].start
    /\ \E j \in IntervalsWithWords :
        /\ Cardinality(WordsMeeting(j)) = 2
        /\ words[2].start < words[1].start
    /\ \E j \in IntervalsWithWords : Cardinality(WordsMeeting(j)) = 1

(***************************************************************************)
(* Claims about words shared by intervals (SpecAlign)                      *)
(***************************************************************************)
\* how often the one-letter word occurs in the text
Occurrences(text, word) ==
    Cardinality({p \in 1..Len(text) : <<text[p]>> = word})

RECURSIVE OccurrencesUpTo(_, _)
\* how often the word occurs in the first k speaker segments
OccurrencesUpTo(k, word) ==
    IF k = 0 THEN 0
    ELSE OccurrencesUpTo(k - 1, word)
            + Occurrences(speaker_segments[k].text, word)

\* the diarization intervals word i overlaps
IntervalsMeeting(i) == {j \in 1..Len(diarization) : WordMeets(i, j)}

RECURSIVE SegmentWordCount(_)
\* the number of words in the first k speaker segments
SegmentWordCount(k) ==
    IF k = 0 THEN 0
    ELSE SegmentWordCount(k - 1) + Len(Split(speaker_segments[k].text))

\* diarization intervals i and j share time
IntervalsOverlap(i, j) ==
    /\ diarization[i].start < diarization[j].end
    /\ diarization[j].start < diarization[i].end

\* C20: each word of the ASR text occurs in the speaker segments once for
\* every diarization interval it overlaps, with no deduplication, and so
\* not at all when it overlaps none.
C20_WordInEveryIntervalItOverlaps ==
    pc /= "request" =>
        \A i \in 1..Len(words) :
            OccurrencesUpTo(Len(speaker_segments), words[i].word)
                = Cardinality(IntervalsMeeting(i))

\* C20 witness: a word straddles the boundary between two intervals that do
\* not overlap each other and is in both, and the speaker segments have
\* more words than the ASR text
C20_Witness ==
    /\ pc = "aligned"
    /\ Len(diarization) = 2
    /\ ~IntervalsOverlap(1, 2)
    /\ \E i \in 1..Len(words) : IntervalsMeeting(i) = {1, 2}
    /\ SegmentWordCount(Len(speaker_segments)) > Len(words)

\* a word is in two intervals that overlap each other
C20_SharedByOverlappingIntervals ==
    /\ pc = "aligned"
    /\ Len(diarization) = 2
    /\ IntervalsOverlap(1, 2)
    /\ \E i \in 1..Len(words) : IntervalsMeeting(i) = {1, 2}
    /\ SegmentWordCount(Len(speaker_segments)) > Len(words)

\* a word overlaps no interval while another word does
C20_WordInNoSegment ==
    /\ pc = "aligned"
    /\ speaker_segments /= <<>>
    /\ \E i \in 1..Len(words) : IntervalsMeeting(i) = {}

(***************************************************************************)
(* Claims about the turns of build_conversation (SpecTurns)                *)
(***************************************************************************)
\* the aligned segments that open a turn: the first one, and each one whose
\* speaker differs from the segment before it, which is the last one of the
\* open turn, or whose start is more than MAX_GAP after that segment's end,
\* which is the open turn's current end
Openers ==
    {i \in 1..Len(speaker_segments) :
        \/ i = 1
        \/ speaker_segments[i].speaker /= speaker_segments[i - 1].speaker
        \/ speaker_segments[i].start - speaker_segments[i - 1].end > MAX_GAP}

\* C21: the turns are in non-decreasing start order; no two consecutive
\* turns have the same raw speaker with next.start - previous.end <= 0.75 s;
\* a segment opens a new turn exactly when its raw speaker differs from the
\* open turn's or its start is more than 0.75 s after the open turn's
\* current end, and extends the open turn otherwise.
C21_TurnsOpenOnSpeakerOrGap ==
    pc = "conversation" =>
        /\ \A t \in 1..(Len(conversation) - 1) :
            /\ conversation[t].start <= conversation[t + 1].start
            /\ conversation[t].speaker_raw = conversation[t + 1].speaker_raw
                => conversation[t + 1].start - conversation[t].end > MAX_GAP
        /\ \A i \in 1..(Len(speaker_segments) - 1) :
            speaker_segments[i].start <= speaker_segments[i + 1].start
        /\ Len(conversation) = Cardinality(Openers)
        /\ \A t \in 1..Len(conversation) :
            TurnCovers(t, KthSmallest(Openers, t),
                       KthSmallest(Openers \cup {Len(speaker_segments) + 1},
                                   t + 1) - 1)

\* C21 witness: a turn of two segments of one speaker, followed by a turn
\* of the same speaker that starts more than 0.75 s after its end
C21_Witness ==
    /\ pc = "conversation"
    /\ Len(conversation) = 2
    /\ Len(speaker_segments) = 3
    /\ conversation[1].speaker_raw = conversation[2].speaker_raw
    /\ conversation[2].start - conversation[1].end > MAX_GAP

(***************************************************************************)
(* Claims about _extract_asr_segments (SpecExtract)                        *)
(***************************************************************************)
\* the list the claim selects: a flat list, else a dict's top-level
\* segments list, else a dict's meta.segments list, else nothing
SelectedList ==
    IF asr_result.kind = "list" THEN asr_result.items
    ELSE IF asr_result.kind /= "dict" THEN <<>>
    ELSE IF asr_result.segments.tag = "list" THEN asr_result.segments.v
    ELSE IF asr_result.meta.tag /= "dict" THEN <<>>
    ELSE IF asr_result.meta.segments.tag = "list"
         THEN asr_result.meta.segments.v
    ELSE <<>>

\* the positions of the selected records that have both start and end
WithStartAndEnd ==
    {i \in 1..Len(SelectedList) :
        {"start", "end"} \subseteq DOMAIN SelectedList[i]}

Blanks(n) == [i \in 1..n |-> SP]

\* t is text without its surrounding whitespace
IsTrimmed(t, text) ==
    /\ t = <<>> \/ (t[1] /= SP /\ t[Len(t)] /= SP)
    /\ \E a, b \in 0..Len(text) : text = Blanks(a) \o t \o Blanks(b)

\* C22: the result holds, in input order, one record for each record of the
\* selected list that has both start and end, with that record's start and
\* end, its text trimmed, its avg_logprob or -1.0 and its no_speech_prob or
\* 0.0; for any other shape of ASR result it is empty.
C22_ExtractedRecords ==
    pc = "extracted" =>
        /\ Len(asr) = Cardinality(WithStartAndEnd)
        /\ \A k \in 1..Len(asr) :
            LET s == SelectedList[KthSmallest(WithStartAndEnd, k)]
            IN  /\ DOMAIN asr[k] = ExtractKeys
                /\ asr[k].start = s.start
                /\ asr[k].end = s.end
                /\ IsTrimmed(asr[k].text,
                             IF "text" \in DOMAIN s THEN s.text ELSE <<>>)
                /\ asr[k].avg_logprob =
                    (IF "avg_logprob" \in DOMAIN s THEN s.avg_logprob
                     ELSE DEFAULT_AVG_LOGPROB)
                /\ asr[k].no_speech_prob =
                    (IF "no_speech_prob" \in DOMAIN s THEN s.no_speech_prob
                     ELSE DEFAULT_NO_SPEECH_PROB)

\* C22 witness: a dict with a top-level list and a list under meta; of the
\* two top-level records the first lacks end and is dropped, the second
\* lacks avg_logprob and is returned with the default and its text trimmed
C22_Witness ==
    /\ pc = "extracted"
    /\ asr_result.kind = "dict"
    /\ asr_result.segments.tag = "list"
    /\ asr_result.meta.tag = "dict"
    /\ Len(asr_result.segments.v) = 2
    /\ WithStartAndEnd = {2}
    /\ "avg_logprob" \notin DOMAIN asr_result.segments.v[2]
    /\ Len(asr) = 1
    /\ asr[1].avg_logprob = DEFAULT_AVG_LOGPROB
    /\ asr[1].text /= asr_result.segments.v[2].text

\* the segments are taken from the list under meta
C22_MetaSegmentsUsed ==
    /\ pc = "extracted"
    /\ asr_result.kind = "dict"
    /\ asr_result.segments.tag /= "list"
    /\ asr /= <<>>

(***************************************************************************)
(* Claims about compute_speaker_stats (SpecChainStats)                     *)
(***************************************************************************)
\* the positions of the speaker segments of speaker spk
SegmentsOf(spk) ==
    {i \in 1..Len(speaker_segments) : speaker_segments[i].speaker = spk}

\* the number of whitespace-delimited words of a text: the positions where
\* a word begins
WordStarts(text) ==
    Cardinality({p \in 1..Len(text) :
                    text[p] /= SP /\ (p = 1 \/ text[p - 1] = SP)})

RECURSIVE WordSum(_, _)
\* the words of the speaker segments i..Len of speaker spk
WordSum(spk, i) ==
    IF i > Len(speaker_segments) THEN 0
    ELSE WordSum(spk, i + 1)
            + (IF speaker_segments[i].speaker = spk
               THEN WordStarts(speaker_segments[i].text) ELSE 0)

Greatest(S) == CHOOSE x \in S : \A y \in S : y <= x
Least(S) == CHOOSE x \in S : \A y \in S : x <= y

StatsComputed == pc \in {"speaker_stats", "conversation_stats"}

\* C23: for a non-empty list of speaker segments, compute_speaker_stats has
\* exactly one entry per distinct speaker label, with the sum of end - start
\* of that speaker's segments, their number, the sum of their word counts,
\* the largest single duration, the least start and the greatest end.
C23_SpeakerStats ==
    (StatsComputed /\ speaker_segments /= <<>>) =>
        /\ Len(speaker_stats) = Cardinality(AlignedSpeakers)
        /\ {speaker_stats[k].speaker : k \in 1..Len(speaker_stats)}
                = AlignedSpeakers
        /\ \A k \in 1..Len(speaker_stats) :
            LET st == speaker_stats[k]
                own == SegmentsOf(st.speaker)
            IN  /\ st.total_speaking_time = TotalSpeakingTime(st.speaker)
                /\ st.segment_count = Cardinality(own)
                /\ st.total_words = WordSum(st.speaker, 1)
                /\ st.longest_monologue =
                    Greatest({speaker_segments[i].end - speaker_segments[i].start :
                                i \in own})
                /\ st.first_spoke_at =
                    Least({speaker_segments[i].start : i \in own})
                /\ st.last_spoke_at =
                    Greatest({speaker_segments[i].end : i \in own})

\* C23 witness: two speakers, one with two segments of different durations
\* and three words in all, the longer of the two not being the last
C23_Witness ==
    /\ StatsComputed
    /\ Len(speaker_stats) = 2
    /\ \E k \in 1..2 :
        /\ speaker_stats[k].segment_count = 2
        /\ speaker_stats[k].total_words >= 2
        /\ speaker_stats[k].longest_monologue
                < speaker_stats[k].total_speaking_time
        /\ \E i \in SegmentsOf(speaker_stats[k].speaker) :
            /\ speaker_segments[i].end - speaker_segments[i].start
                    = speaker_stats[k].longest_monologue
            /\ \E j \in SegmentsOf(speaker_stats[k].speaker) : j > i

(***************************************************************************)
(* Claims about the ratios of compute_speaker_stats (SpecChainStats)       *)
(***************************************************************************)
RECURSIVE TimeOfAll(_)
\* the sum of end - start over the speaker segments i..Len
TimeOfAll(i) ==
    IF i > Len(speaker_segments) THEN 0
    ELSE TimeOfAll(i + 1) + speaker_segments[i].end - speaker_segments[i].start

RECURSIVE WordsOfAll(_)
\* the words of the speaker segments i..Len
WordsOfAll(i) ==
    IF i > Len(speaker_segments) THEN 0
    ELSE WordsOfAll(i + 1) + WordStarts(speaker_segments[i].text)

RECURSIVE NumeratorSum(_, _)
\* the sum of the numerators of a ratio over the first k entries
NumeratorSum(field, k) ==
    IF k = 0 THEN 0
    ELSE NumeratorSum(field, k - 1) + speaker_stats[k][field].num

\* the ratio of every speaker has the same denominator den, and the ratios
\* sum to total / den
RatiosSumTo(field, total, den) ==
    /\ \A k \in 1..Len(speaker_stats) : speaker_stats[k][field].den = den
    /\ NumeratorSum(field, Len(speaker_stats)) = total

\* C24: each speaker's speaking_ratio is its total speaking time over
\* max(total speaking time of all speakers, 1.0) and its word_ratio its
\* word count over max(total words, 1); durations being non-negative, the
\* speaking ratios sum to 1 when the total is at least 1.0 s and to the
\* total when it is below, and the word ratios sum to 1 when there is a
\* word.
C24_RatiosOfTotals ==
    (StatsComputed /\ speaker_segments /= <<>>) =>
        /\ \A k \in 1..Len(speaker_stats) :
            LET st == speaker_stats[k]
            IN  /\ st.speaking_ratio =
                    Quotient(TotalSpeakingTime(st.speaker),
                             Max(TimeOfAll(1), ONE_SECOND))
                /\ st.word_ratio =
                    Quotient(WordSum(st.speaker, 1), Max(WordsOfAll(1), 1))
        /\ TimeOfAll(1) >= ONE_SECOND =>
                RatiosSumTo("speaking_ratio", TimeOfAll(1), TimeOfAll(1))
        /\ TimeOfAll(1) < ONE_SECOND =>
                RatiosSumTo("speaking_ratio", TimeOfAll(1), ONE_SECOND)
        /\ WordsOfAll(1) >= 1 =>
                RatiosSumTo("word_ratio", WordsOfAll(1), WordsOfAll(1))

\* C24 witness: two speakers with different shares of more than one second
\* of speech and of the words
C24_Witness ==
    /\ StatsComputed
    /\ Len(speaker_stats) = 2
    /\ TimeOfAll(1) > ONE_SECOND
    /\ speaker_stats[1].speaking_ratio.num /= speaker_stats[2].speaking_ratio.num
    /\ speaker_stats[1].word_ratio.num /= speaker_stats[2].word_ratio.num

\* two speakers with less than one second of speech between them
C24_BelowOneSecond ==
    /\ StatsComputed
    /\ Len(speaker_stats) = 2
    /\ TimeOfAll(1) < ONE_SECOND
    /\ speaker_stats[1].speaking_ratio.den = ONE_SECOND

(***************************************************************************)
(* Claims about the text and span of merged blocks (SpecMerge)             *)
(***************************************************************************)
RECURSIVE WordsOfRun(_, _, _)
\* the words of the segments lo..hi of the list xs, in order
WordsOfRun(xs, lo, hi) ==
    IF lo > hi THEN <<>>
    ELSE WordsOfRun(xs, lo, hi - 1) \o Split(xs[hi].text)

\* block b is built from the raw segments lo..hi of the start-sorted list
BlockCovers(b, segs, lo, hi) ==
    /\ lo <= hi
    /\ b.start = segs[lo].start
    /\ b.end = segs[hi].end
    /\ Split(b.text) = WordsOfRun(segs, lo, hi)

\* C25: the words of the output blocks, in output order, are exactly the
\* words of the raw segments in start-sorted order, none dropped,
\* duplicated or moved; the blocks are consecutive runs of that order, each
\* starting at the start of its first and ending at the end of its last
\* raw segment.
C25_MergeKeepsText ==
    pc = "merged" =>
        LET segs == RawInStartOrder
            n == Len(segs)
            k == Len(merged)
        IN  /\ WordsOfRun(merged, 1, k) = WordsOfRun(segs, 1, n)
            /\ IF n = 0 THEN k = 0
               ELSE /\ k \in 1..n
                    /\ \E cuts \in SUBSET (1..(n - 1)) :
                        /\ Cardinality(cuts) = k - 1
                        /\ \A t \in 1..k :
                            BlockCovers(merged[t], segs,
                                        KthSmallest(cuts \cup {0}, t) + 1,
                                        KthSmallest(cuts \cup {n}, t))

\* C25 witness: three raw segments given out of start order, the first two
\* in start order merged into one block of three words, the third left as
\* a block of its own
C25_Witness ==
    /\ pc = "merged"
    /\ Len(raw) = 3
    /\ raw /= RawInStartOrder
    /\ Len(merged) = 2
    /\ Len(Split(merged[1].text)) = 3
    /\ merged[1].end = RawInStartOrder[2].end
    /\ merged[1].end > RawInStartOrder[1].end

(***************************************************************************)
(* Claims about the default confidence (SpecExact)                         *)
(***************************************************************************)
\* every ASR segment and every diarization interval of the request has a
\* strictly positive duration
PositiveDurations ==
    /\ \A i \in 1..Len(asr_result.segments.v) :
        asr_result.segments.v[i].start < asr_result.segments.v[i].end
    /\ \A j \in 1..Len(diarization) :
        diarization[j].start < diarization[j].end

\* every timestamp of the request is exact to three decimals
ExactToMillisecond ==
    /\ \A i \in 1..Len(asr_result.segments.v) :
        /\ asr_result.segments.v[i].start % 1000 = 0
        /\ asr_result.segments.v[i].end % 1000 = 0
    /\ \A j \in 1..Len(diarization) :
        /\ diarization[j].start % 1000 = 0
        /\ diarization[j].end % 1000 = 0

\* C26: with strictly positive durations and timestamps exact to three
\* decimals, every speaker segment align returns shares a positive time
\* with at least one ASR segment and holds at least one word; its
\* confidence is that of an ASR segment and never the default 0.5.
C26_DefaultNeverUsed ==
    (pc = "aligned" /\ PositiveDurations /\ ExactToMillisecond) =>
        \A k \in 1..Len(speaker_segments) :
            LET block == speaker_segments[k]
            IN  /\ \E i \in 1..Len(asr) : SharedTime(block, i) > 0
                /\ WordStarts(block.text) >= 1
                /\ \E i \in 1..Len(asr) :
                    block.confidence = ConfidenceFromWhisper(asr[i])
                /\ block.confidence /= DEFAULT_CONFIDENCE

\* C26 witness: positive durations, exact times, two ASR segments, and a
\* block that ends where an ASR segment it does not overlap starts
C26_Witness ==
    /\ pc = "aligned"
    /\ PositiveDurations
    /\ ExactToMillisecond
    /\ Len(asr) = 2
    /\ \E k \in 1..Len(speaker_segments) :
        \E i \in 1..Len(asr) :
            /\ speaker_segments[k].end = asr[i].start
            /\ SharedTime(speaker_segments[k], i) = 0

\* the default is used when an ASR segment has no duration
C26_DefaultWithoutDuration ==
    /\ pc = "aligned"
    /\ ExactToMillisecond
    /\ \E k \in 1..Len(speaker_segments) :
        speaker_segments[k].confidence = DEFAULT_CONFIDENCE

\* the default is used, all durations being positive, when a time is not
\* exact to three decimals (reached under SpecBest)
C26_DefaultWithoutExactTimes ==
    /\ pc = "aligned"
    /\ PositiveDurations
    /\ \E k \in 1..Len(speaker_segments) :
        speaker_segments[k].confidence = DEFAULT_CONFIDENCE

(***************************************************************************)
(* Claims about overlapping segments in build_conversation (SpecConv)      *)
(***************************************************************************)
\* aligned segments i and i + 1 have one speaker, and i + 1 starts at most
\* MAX_GAP after the end of i, or before it
FollowsClosely(i) ==
    /\ speaker_segments[i].speaker = speaker_segments[i + 1].speaker
    /\ speaker_segments[i + 1].start - speaker_segments[i].end <= MAX_GAP

\* C27: a segment of the open turn's speaker that starts at most 0.75 s
\* after the turn's end, or before it, is merged into the turn, whose end
\* becomes that segment's end: every turn has the start of its first
\* segment, the end of its last segment, and start <= end.
C27_OverlapMergedIntoTurn ==
    pc = "conversation" =>
        LET n == Len(speaker_segments)
            k == Len(conversation)
        IN  n > 0 =>
                \E cuts \in SUBSET (1..(n - 1)) :
                    /\ Cardinality(cuts) = k - 1
                    /\ \A i \in 1..(n - 1) : FollowsClosely(i) => i \notin cuts
                    /\ \A t \in 1..k :
                        /\ TurnCovers(t, KthSmallest(cuts \cup {0}, t) + 1,
                                         KthSmallest(cuts \cup {n}, t))
                        /\ conversation[t].start <= conversation[t].end

\* C27 witness: align returned two overlapping segments of one speaker,
\* unmerged; they are one turn, which ends before the end of the first of
\* them
C27_Witness ==
    /\ pc = "conversation"
    /\ Len(speaker_segments) = 2
    /\ speaker_segments[1].speaker = speaker_segments[2].speaker
    /\ speaker_segments[2].start < speaker_segments[1].end
    /\ Len(conversation) = 1
    /\ conversation[1].end = speaker_segments[2].end
    /\ conversation[1].end < speaker_segments[1].end

(***************************************************************************)
(* Claims about ties in the role ranking (SpecConv)                        *)
(***************************************************************************)
\* the position, in start order, of the first aligned segment of spk
FirstSegmentOf(spk) == Least(SegmentsOf(spk))

\* the speakers ranked before spk: those with more speaking time, and those
\* with as much whose first segment comes earlier
RankedBefore(spk) ==
    {u \in AlignedSpeakers \ {spk} :
        \/ TotalSpeakingTime(u) > TotalSpeakingTime(spk)
        \/ /\ TotalSpeakingTime(u) = TotalSpeakingTime(spk)
           /\ FirstSegmentOf(u) < FirstSegmentOf(spk)}

\* C28: the ranking that gives the roles is by total speaking time,
\* descending, and of two speakers with equal time the one whose first
\* aligned segment comes earlier in start order is ranked first; the role
\* of every turn is fixed by its speaker's rank.
C28_TiesRankedByFirstAppearance ==
    pc = "conversation" =>
        \A t \in 1..Len(conversation) :
            LET rank == Cardinality(RankedBefore(conversation[t].speaker_raw))
            IN  conversation[t].speaker =
                    (IF rank = 0 THEN "CUSTOMER"
                     ELSE IF rank = 1 THEN "AGENT"
                     ELSE conversation[t].speaker_raw)

\* C28 witness: three speakers with equal total speaking time; the first to
\* appear is CUSTOMER, the second AGENT, the third keeps its label
C28_Witness ==
    /\ pc = "conversation"
    /\ Cardinality(AlignedSpeakers) = 3
    /\ \A s, u \in AlignedSpeakers : TotalSpeakingTime(s) = TotalSpeakingTime(u)
    /\ Len(conversation) = 3
    /\ conversation[1].speaker = "CUSTOMER"
    /\ conversation[2].speaker = "AGENT"
    /\ conversation[3].speaker = conversation[3].speaker_raw

(***************************************************************************)
(* asr_service (SpecAsr): one process makes up to MaxAsrCalls calls of     *)
(* load_model and transcribe_local, one after the other (the route calls   *)
(* transcribe_local synchronously), each with a model name.  whisper is a  *)
(* library outside the repository: an invocation of whisper.load_model     *)
(* either returns a new model object or raises (unknown name, failed       *)
(* download), and so does model.transcribe.                                *)
(***************************************************************************)
\* calls made in one process
MaxAsrCalls == 3

\* the model_name arguments of the calls ("base" is the default)
ModelNames == {"base", "large"}

\* how an invocation of the whisper library ends
LibraryOutcomes == {"returned", "raised"}

\* a different test: reload when the cached model was loaded under another
\* name
MustLoad_OtherName(cache, model_name) ==
    cache = NoModel \/ cache.name /= model_name

\* if _model is None
MustLoad(cache, model_name) == cache = NoModel

\* load_model(model_name) called as call number `call` with the cache and
\* the invocations so far; `load_outcome` is how whisper.load_model ends if it
\* is invoked.  Gives the cache and the invocations afterwards, whether the
\* call raised and the model it returned.
load_model(cache, loads, model_name, call, load_outcome) ==
    IF MustLoad(cache, model_name)
    THEN LET invoked ==
                 Append(loads, [call |-> call, model_name |-> model_name,
                                outcome |-> load_outcome])
             loaded == [name |-> model_name, load |-> Len(invoked)]
         IN  IF load_outcome = "raised"
             THEN [_model |-> cache, loads |-> invoked, raised |-> TRUE,
                   value |-> NoModel]
             ELSE [_model |-> loaded, loads |-> invoked, raised |-> FALSE,
                   value |-> loaded]
    ELSE [_model |-> cache, loads |-> loads, raised |-> FALSE,
          value |-> cache]

InitAsr ==
    /\ pc = "asr_service"
    /\ asr_result = <<>>
    /\ diarization = <<>>
    /\ asr = <<>>
    /\ words = <<>>
    /\ raw = <<>>
    /\ merged = <<>>
    /\ remerged = <<>>
    /\ speaker_segments = <<>>
    /\ conversation = <<>>
    /\ InitResults

\* a call of load_model(model_name)
LoadModel ==
    \E model_name \in ModelNames, load_outcome \in LibraryOutcomes :
        LET call == Len(asr_calls) + 1
            r == load_model(_model, whisper_loads, model_name, call,
                            load_outcome)
        IN  /\ pc = "asr_service"
            /\ call <= MaxAsrCalls
            /\ _model' = r._model
            /\ whisper_loads' = r.loads
            /\ asr_calls' =
                   Append(asr_calls,
                          [fn |-> "load_model", model_name |-> model_name,
                           raised |-> r.raised, model |-> r.value,
                           meta_model |-> None])
            /\ UNCHANGED <<pc, asr_result, diarization, asr, words, raw,
                           merged, remerged, speaker_segments, conversation,
                           segments_in, raw_segments, smoothed>>
            /\ UNCHANGED <<resultVars, callVars>>

\* a call of transcribe_local(wav_path, model_name, language): the model
\* comes from load_model(model_name); model.transcribe then returns or
\* raises; the meta of a result names the model_name that was asked for
TranscribeLocal ==
    \E model_name \in ModelNames, load_outcome \in LibraryOutcomes,
       transcribed \in LibraryOutcomes :
        LET call == Len(asr_calls) + 1
            r == load_model(_model, whisper_loads, model_name, call,
                            load_outcome)
            raised == r.raised \/ transcribed = "raised"
        IN  /\ pc = "asr_service"
            /\ call <= MaxAsrCalls
            /\ _model' = r._model
            /\ whisper_loads' = r.loads
            /\ asr_calls' =
                   Append(asr_calls,
                          [fn |-> "transcribe_local",
                           model_name |-> model_name,
                           raised |-> raised, model |-> r.value,
                           meta_model |-> IF raised THEN None
                                          ELSE model_name])
            /\ UNCHANGED <<pc, asr_result, diarization, asr, words, raw,
                           merged, remerged, speaker_segments, conversation,
                           segments_in, raw_segments, smoothed>>
            /\ UNCHANGED <<resultVars, callVars>>

NextAsr == LoadModel \/ TranscribeLocal

SpecAsr == InitAsr /\ [][NextAsr]_vars

\* the invocations of whisper.load_model that returned a model
LoadsReturned ==
    {k \in 1..Len(whisper_loads) : whisper_loads[k].outcome = "returned"}

\* the calls that were made while no model was cached: the first call, and
\* a later call when every invocation before it raised
CallsWithoutCache ==
    {c \in 1..Len(asr_calls) :
        \A k \in LoadsReturned : whisper_loads[k].call >= c}

\* the cache holds the model of the invocation that returned, if there is
\* one, and in every call after that one load_model gave that same model
CacheKept ==
    /\ LoadsReturned = {} => _model = NoModel
    /\ \A k \in LoadsReturned :
           /\ _model = [name |-> whisper_loads[k].model_name, load |-> k]
           /\ \A c \in 1..Len(asr_calls) :
                  c >= whisper_loads[k].call => asr_calls[c].model = _model

\* C29 as stated: whisper.load_model is invoked at most once, by the first
\* call; the cache once set is never cleared or replaced and every later
\* call returns that cached model whatever model_name it is given.
C29_LoadedAtMostOnce ==
    /\ Len(whisper_loads) <= 1
    /\ \A k \in 1..Len(whisper_loads) : whisper_loads[k].call = 1
    /\ CacheKept

\* C29: whisper.load_model is invoked by exactly the calls made while no
\* model is cached (the first call, and every later call as long as each
\* invocation before it raised), once per call; at most one invocation
\* returns; the model it returns stays in the cache in every later state
\* and is the model of that call and of every later call, whatever
\* model_name they are given.
C29_LoadedUntilCached ==
    /\ {whisper_loads[k].call : k \in 1..Len(whisper_loads)}
           = CallsWithoutCache
    /\ \A j, k \in 1..Len(whisper_loads) :
           whisper_loads[j].call = whisper_loads[k].call => j = k
    /\ Cardinality(LoadsReturned) <= 1
    /\ CacheKept

\* C29 witness: the first call's invocation raised, the second call loaded
\* the model, and a later call with another model_name got that same model
C29_Witness ==
    /\ Len(asr_calls) = 3
    /\ Len(whisper_loads) = 2
    /\ whisper_loads[1].outcome = "raised"
    /\ whisper_loads[2].outcome = "returned"
    /\ asr_calls[3].model_name /= whisper_loads[2].model_name
    /\ asr_calls[3].model = asr_calls[2].model
    /\ _model = asr_calls[2].model
    /\ _model /= NoModel

\* reached when the claim is taken as stated: a second invocation of
\* whisper.load_model, by the second call, after the first one raised
C29_LoadedTwice ==
    /\ Len(whisper_loads) = 2
    /\ whisper_loads[2].call = 2

(***************************************************************************)
(* diarization_service._smooth_segments (SpecSmooth).  diarize_audio       *)
(* passes the tracks of the pipeline, times rounded to milliseconds and    *)
(* confidence 1.0, in the pipeline's order.  The inputs are lists of up to *)
(* MaxSmooth segments on the grid of Step: each lasts SmoothDurations      *)
(* steps (0.375 s, 0.75 s, 1.125 s) and starts SmoothGaps steps after the  *)
(* end of the one before it in the list (-2: inside or before it, 0, 1:    *)
(* 0.375 s, 2: 0.75 s), of one or two speakers.  On this grid the float    *)
(* differences of the code are exact.                                      *)
(***************************************************************************)
\* segments in one list
MaxSmooth == 3

SmoothDurations == {1, 2, 3}
SmoothGaps == {-2, 0, 1, 2}

\* the start of the first segment of a list, in steps
SmoothOrigin == 2 * MaxSmooth

\* min_duration: float = 0.8
min_duration == 800 * 1000

\* max_gap_merge: float = 0.4
max_gap_merge == 400 * 1000

RECURSIVE SmoothStart(_, _, _)
SmoothStart(dur, gap, i) ==
    IF i = 1 THEN SmoothOrigin
    ELSE SmoothStart(dur, gap, i - 1) + dur[i - 1] + gap[i]

\* a list passed to _smooth_segments: n segments with these durations, gaps
\* and speakers
SmoothInput(n, dur, gap, spk) ==
    [i \in 1..n |->
        [start |-> SmoothStart(dur, gap, i) * Step,
         end |-> (SmoothStart(dur, gap, i) + dur[i]) * Step,
         speaker |-> spk[i],
         confidence |-> ConfScale]]

InitSmooth ==
    /\ pc = "raw_segments"
    /\ \E n \in 0..MaxSmooth :
           \E dur \in [1..n -> SmoothDurations],
              gap \in [1..n -> SmoothGaps],
              spk \in [1..n -> SpeakersUpTo(2)] :
               /\ n > 0 => gap[1] = 0
               /\ CanonicalLabels(SmoothInput(n, dur, gap, spk))
               /\ raw_segments = SmoothInput(n, dur, gap, spk)
    /\ segments_in = raw_segments
    /\ smoothed = <<>>
    /\ asr_result = <<>>
    /\ diarization = <<>>
    /\ asr = <<>>
    /\ words = <<>>
    /\ raw = <<>>
    /\ merged = <<>>
    /\ remerged = <<>>
    /\ speaker_segments = <<>>
    /\ conversation = <<>>
    /\ outcome = NotCalled
    /\ speaker_stats = <<>>
    /\ conversation_stats = <<>>
    /\ enriched = <<>>
    /\ heap = <<>>
    /\ proc = <<>>
    /\ _model = NoModel
    /\ whisper_loads = <<>>
    /\ asr_calls = <<>>

\* mutant: the end becomes the end of the absorbed segment
AbsorbedEnd_OfSegment(last_end, seg_end) == seg_end

\* max(last["end"], seg["end"])
AbsorbedEnd(last_end, seg_end) == Max(last_end, seg_end)

\* last["end"] = max(last["end"], seg["end"])
\* last["confidence"] = (last["confidence"] + seg["confidence"]) / 2.0
\* (confidences are in thousandths; the mean of 1.0 and 1.0 is exact)
Absorbed(last, seg) ==
    [last EXCEPT !.end = AbsorbedEnd(last.end, seg.end),
                 !.confidence = (last.confidence + seg.confidence) \div 2]

\* `for seg in segments`, on the dicts by identity: dicts[id] is the value
\* of the dict that was passed at position id, order the ids sorted by
\* start, kept the ids of the dicts appended to `smoothed`
RECURSIVE SmoothLoop(_, _, _, _)
SmoothLoop(order, i, kept, dicts) ==
    IF i > Len(order) THEN [smoothed |-> kept, dicts |-> dicts]
    ELSE LET seg == dicts[order[i]]
             duration == seg.end - seg.start
             appended ==
                 SmoothLoop(order, i + 1, Append(kept, order[i]), dicts)
         IN  IF kept /= <<>>
             THEN LET last_id == kept[Len(kept)]
                      last == dicts[last_id]
                      gap == seg.start - last.end
                      absorbed ==
                          SmoothLoop(order, i + 1, kept,
                                     [dicts EXCEPT
                                         ![last_id] = Absorbed(last, seg)])
                  IN  IF seg.speaker = last.speaker /\ gap <= max_gap_merge
                      THEN absorbed
                      ELSE IF duration < min_duration THEN absorbed
                      ELSE appended
             ELSE appended

\* _smooth_segments(segments): the dicts afterwards and the ids of the list
\* returned
SmoothRun(segs) ==
    IF segs = <<>> THEN [smoothed |-> <<>>, dicts |-> segs]
    ELSE SmoothLoop(SortIds(segs, [i \in 1..Len(segs) |-> i]), 1, <<>>, segs)

\* smoothed = _smooth_segments(raw_segments): the list returned holds dicts
\* of raw_segments, changed in place
SmoothSegments ==
    /\ pc = "raw_segments"
    /\ LET r == SmoothRun(raw_segments)
       IN  /\ smoothed' = [k \in 1..Len(r.smoothed) |-> r.dicts[r.smoothed[k]]]
           /\ raw_segments' = r.dicts
    /\ pc' = "smoothed"
    /\ UNCHANGED <<asr_result, diarization, asr, words, raw, merged,
                   remerged, speaker_segments, conversation, segments_in,
                   _model, whisper_loads, asr_calls>>
    /\ UNCHANGED <<resultVars, callVars>>

SpecSmooth == InitSmooth /\ [][SmoothSegments]_vars

\* the segments passed, in the order the loop takes them
PassedInOrder == SortedByStart(segments_in)

\* the k-th smallest member of a set of positions
KthOf(positions, k) ==
    CHOOSE p \in positions :
        Cardinality({q \in positions : q < p}) = k - 1

\* the greatest end among the passed segments at positions lo..hi
GreatestEnd(lo, hi) ==
    CHOOSE e \in {PassedInOrder[i].end : i \in lo..hi} :
        \A i \in lo..hi : PassedInOrder[i].end <= e

\* `kept` are the positions of the passed segments that became the entries
\* of the result, in order: entry k has the start and the speaker of its
\* segment; every entry but the first comes from a segment of at least
\* min_duration; every segment at another position is absorbed by the entry
\* before it, being of its speaker and at most max_gap_merge after its end
\* so far, or shorter than min_duration; and the end of an entry is the
\* greatest end of its own segment and the ones it absorbed
KeptAndAbsorbed(kept) ==
    LET n == Len(PassedInOrder)
        last(i) == CHOOSE p \in kept :
                       p <= i /\ \A q \in kept : q <= i => q <= p
        duration(i) == PassedInOrder[i].end - PassedInOrder[i].start
    IN  /\ Cardinality(kept) = Len(smoothed)
        /\ n > 0 => 1 \in kept
        /\ \A k \in 1..Len(smoothed) :
               LET lo == KthOf(kept, k)
                   hi == IF k = Len(smoothed) THEN n
                         ELSE KthOf(kept, k + 1) - 1
               IN  /\ smoothed[k].start = PassedInOrder[lo].start
                   /\ smoothed[k].speaker = PassedInOrder[lo].speaker
                   /\ smoothed[k].end = GreatestEnd(lo, hi)
                   /\ smoothed[k].end >= PassedInOrder[lo].end
                   /\ k > 1 => duration(lo) >= min_duration
        /\ \A i \in (1..n) \ kept :
               \/ /\ PassedInOrder[i].speaker = PassedInOrder[last(i)].speaker
                  /\ PassedInOrder[i].start - GreatestEnd(last(i), i - 1)
                         <= max_gap_merge
               \/ duration(i) < min_duration

\* C30: the result of _smooth_segments is in non-decreasing start order; no
\* two adjacent entries have the same speaker and a gap (next start minus
\* previous end) of at most 0.4 s; every entry but the first comes from a
\* passed segment of at least 0.8 s, and every other passed segment, close
\* and of the same speaker or shorter than 0.8 s, is absorbed into the entry
\* kept before it, whose end does not decrease and whose speaker stays.
C30_SmoothedEntries ==
    pc = "smoothed" =>
        /\ \A k \in 1..(Len(smoothed) - 1) :
               /\ smoothed[k].start <= smoothed[k + 1].start
               /\ ~ /\ smoothed[k].speaker = smoothed[k + 1].speaker
                    /\ smoothed[k + 1].start - smoothed[k].end
                           <= max_gap_merge
        /\ \E kept \in SUBSET (1..Len(segments_in)) : KeptAndAbsorbed(kept)

\* C30 witness: of three segments passed the first is kept, the second, of
\* the other speaker and short, is absorbed and moves the end of the first
\* entry, and the third, of the first speaker and long, is a second entry
C30_Witness ==
    /\ pc = "smoothed"
    /\ Len(segments_in) = 3
    /\ Len(smoothed) = 2
    /\ PassedInOrder[2].speaker /= PassedInOrder[1].speaker
    /\ PassedInOrder[2].end > PassedInOrder[1].end
    /\ smoothed[1].end = PassedInOrder[2].end
    /\ smoothed[1].speaker = PassedInOrder[1].speaker
    /\ smoothed[2].speaker = smoothed[1].speaker
    /\ smoothed[2].start = PassedInOrder[3].start

\* reached: a list passed out of start order whose later, shorter segment
\* ends before the entry that absorbs it
C30_AbsorbedEndsEarlier ==
    /\ pc = "smoothed"
    /\ segments_in /= PassedInOrder
    /\ Len(smoothed) = 1
    /\ \E i \in 2..Len(segments_in) :
           PassedInOrder[i].end < smoothed[1].end

====
